---- MODULE Spec2Model ----
(***************************************************************************)
(* A model of cofi.utils' regularization term algebra:                     *)
(*   BaseRegularization / CompositeRegularization  (utils/_reg_base.py)    *)
(*   LpNormRegularization / QuadraticReg           (utils/_reg_lp_norm.py) *)
(*   DimensionMismatchError                        (cofi/exceptions.py)    *)
(*                                                                         *)
(* Python values are tagged records ([t |-> "int", v |-> 3]); a float is   *)
(* an exact fraction <<n, d>> in lowest terms, with d = 0 for the IEEE     *)
(* special values (<<0,0>> not-a-number, <<1,0>> and <<-1,0>> infinities). *)
(* Every quantity the modelled inputs produce is a small dyadic fraction,  *)
(* on which double arithmetic is exact, or one of the special values.      *)
(***************************************************************************)
EXTENDS Integers, Sequences, FiniteSets, TLC

VARIABLES heap, last, threads

vars == <<heap, last, threads>>

----------------------------------------------------------------------------
(* Bounds                                                                  *)

\* the number of term objects one behaviour creates
MaxTerms == 3
\* the number of base terms a behaviour of SpecTerms constructs; it may
\* build one composite on top of them
MaxBase == 1
\* model entries range over -MaxVal .. MaxVal
MaxVal == 1
\* scalar coefficients of k * t range over -MaxCoef .. MaxCoef
MaxCoef == 1
\* the number of threads that evaluate shared terms side by side
MaxThreads == 2

----------------------------------------------------------------------------
(* Floats                                                                  *)

Abs(x) == IF x < 0 THEN -x ELSE x

Sign(x) == IF x < 0 THEN -1 ELSE IF x > 0 THEN 1 ELSE 0

RECURSIVE Gcd(_, _)
Gcd(a, b) == IF b = 0 THEN a ELSE Gcd(b, a % b)

\* the float n/d (d >= 0), in lowest terms
Float(n, d) ==
    IF d = 0 THEN <<Sign(n), 0>>
    ELSE IF d = 1 THEN <<n, 1>>
    ELSE LET g == Gcd(Abs(n), d) IN <<n \div g, d \div g>>

NaN == <<0, 0>>

Zero == <<0, 1>>

IsFinite(a) == a[2] # 0

\* a + b on floats
FAdd(a, b) ==
    IF a = Zero THEN b
    ELSE IF b = Zero THEN a
    ELSE IF a[2] # 0 /\ b[2] # 0 THEN Float(a[1] * b[2] + b[1] * a[2], a[2] * b[2])
    ELSE IF a = NaN \/ b = NaN THEN NaN
    ELSE IF a[2] = 0 /\ b[2] = 0 THEN (IF a[1] = b[1] THEN a ELSE NaN)
    ELSE IF a[2] = 0 THEN a ELSE b

\* a * b on floats
FMul(a, b) ==
    IF a[2] # 0 /\ b[2] # 0 THEN Float(a[1] * b[1], a[2] * b[2])
    ELSE IF a = NaN \/ b = NaN THEN NaN
    ELSE IF a[1] = 0 \/ b[1] = 0 THEN NaN
    ELSE <<Sign(a[1]) * Sign(b[1]), 0>>

FNeg(a) == <<-a[1], a[2]>>

FSub(a, b) == FAdd(a, FNeg(b))

FAbs(a) == <<Abs(a[1]), a[2]>>

\* np.sign: 0 at 0, not-a-number at not-a-number
FSign(a) == IF a = NaN THEN NaN ELSE <<Sign(a[1]), 1>>

\* a ** e for a >= 0 and an integer e; 0 ** 0 is 1 and 0 ** (negative) is inf
RECURSIVE FPow(_, _)
FPow(a, e) ==
    IF e = 0 THEN <<1, 1>>
    ELSE IF e > 0 THEN FMul(a, FPow(a, e - 1))
    ELSE IF a = NaN THEN NaN
    ELSE IF a[1] = 0 THEN <<1, 0>>
    ELSE IF a[2] = 0 THEN Zero
    ELSE FPow(<<a[2], a[1]>>, -e)

\* a ** e for a >= 0 and a float e. A power that is not an integer power is
\* given on the bases 0, 1 and the special values, where it is exact
FPower(a, e) ==
    IF e[2] = 1 THEN FPow(a, e[1])
    ELSE CASE a = NaN \/ e = NaN -> NaN
           [] a = Zero -> IF e[1] > 0 THEN Zero ELSE <<1, 0>>
           [] a = <<1, 1>> -> <<1, 1>>
           [] a = <<1, 0>> -> IF e[1] > 0 THEN <<1, 0>> ELSE Zero

\* a <= 0 on floats; no comparison with not-a-number is true
FLeqZero(a) == a # NaN /\ a[1] <= 0

RECURSIVE FSum(_)
FSum(s) == IF s = <<>> THEN Zero ELSE FAdd(Head(s), FSum(Tail(s)))

RECURSIVE Product(_)
Product(s) == IF s = <<>> THEN 1 ELSE Head(s) * Product(Tail(s))

----------------------------------------------------------------------------
(* Python values                                                           *)

PyNone == [t |-> "None"]

PyInt(n) == [t |-> "int", v |-> n]

PyStr(s) == [t |-> "str", v |-> s]

PyTuple(dims) == [t |-> "tuple", v |-> dims]

\* a dense array: its shape and its entries in C order (s \o <<>> is s, held
\* as an explicit tuple)
NdArray(shape, data) == [t |-> "ndarray", shape |-> shape, data |-> data \o <<>>]

\* a scipy sparse matrix: only its non-zero entries are stored
CsrMatrix(shape, data) ==
    [t |-> "csr_matrix", shape |-> shape, data |-> data \o <<>>]

\* a 1-D array of the integers of s
Vec(s) == NdArray(<<Len(s)>>, [k \in 1..Len(s) |-> <<s[k], 1>>])

Ok(v) == [exc |-> "", val |-> v]

Raise(e) == [exc |-> e, val |-> PyNone]

IsNumber(x) == x.t = "int"

\* the float value of a Python int or float
Num(x) == IF x.t = "int" THEN <<x.v, 1>> ELSE x.v

IsMatrix(x) == x.t \in {"ndarray", "csr_matrix"}

\* np.ndim of an int or a tuple of ints
NpNdim(x) == IF x.t = "tuple" THEN 1 ELSE 0

\* np.size of an int or a tuple of ints
NpSize(x) == IF x.t = "tuple" THEN Len(x.v) ELSE 1

\* np.ravel
NpRavel(a) == NdArray(<<Len(a.data)>>, a.data)

----------------------------------------------------------------------------
(* Matrices                                                                *)

Rows(A) == A.shape[1]

Cols(A) == A.shape[2]

At(A, i, j) == A.data[(i - 1) * A.shape[2] + j]

\* np.identity(n), np.eye(n)
NpIdentity(n) ==
    NdArray(<<n, n>>,
            [k \in 1..(n * n) |->
                IF (k - 1) \div n = (k - 1) % n THEN <<1, 1>> ELSE Zero])

\* A.T
Transpose(A) ==
    [A EXCEPT !.shape = <<Cols(A), Rows(A)>>,
              !.data = [k \in 1..(Rows(A) * Cols(A)) |->
                          At(A, ((k - 1) % Rows(A)) + 1, ((k - 1) \div Rows(A)) + 1)]]

\* np.diag(v) of a 1-D array
NpDiag(v) ==
    LET n == Len(v.data) IN
    NdArray(<<n, n>>,
            [k \in 1..(n * n) |->
                IF (k - 1) \div n = (k - 1) % n THEN v.data[((k - 1) \div n) + 1]
                ELSE Zero])

\* one product of a matrix product; a sparse operand contributes only its
\* stored (non-zero) entries
Term(sa, a, sb, b) ==
    IF a = Zero /\ (sa \/ IsFinite(b)) THEN Zero
    ELSE IF b = Zero /\ (sb \/ IsFinite(a)) THEN Zero
    ELSE FMul(a, b)

\* A @ v for a matrix A and a 1-D array v
MatVec(A, v) ==
    NdArray(<<Rows(A)>>,
            [i \in 1..Rows(A) |->
                FSum([j \in 1..Cols(A) |->
                        Term(A.t = "csr_matrix", At(A, i, j), FALSE, v.data[j])])])

\* A @ B for two matrices; the result is dense unless both are sparse
MatMul(A, B) ==
    LET sa == A.t = "csr_matrix"
        sb == B.t = "csr_matrix"
        r == Rows(A)
        c == Cols(B)
    IN [t |-> IF sa /\ sb THEN "csr_matrix" ELSE "ndarray",
        shape |-> <<r, c>>,
        data |-> [k \in 1..(r * c) |->
                    FSum([l \in 1..Cols(A) |->
                            Term(sa, At(A, ((k - 1) \div c) + 1, l),
                                 sb, At(B, l, ((k - 1) % c) + 1))])]]

\* k * a, elementwise
Scale(k, a) == [a EXCEPT !.data = [i \in 1..Len(a.data) |-> FMul(k, a.data[i])]]

\* a + b, elementwise, for arrays of one shape
ArrAdd(a, b) ==
    NdArray(a.shape, [i \in 1..Len(a.data) |-> FAdd(a.data[i], b.data[i])])

\* v.T @ w for 1-D arrays
Dot(v, w) == FSum([i \in 1..Len(v.data) |-> FMul(v.data[i], w.data[i])])

\* np.vstack((A, B))
NpVstack(A, B) == NdArray(<<Rows(A) + Rows(B), Cols(A)>>, A.data \o B.data)

\* .toarray() of a sparse matrix
ToArray(A) == NdArray(A.shape, A.data)

\* scipy.sparse.csr_matrix(A)
ToCsr(A) == CsrMatrix(A.shape, A.data)

----------------------------------------------------------------------------
(* cofi/exceptions.py                                                      *)

\* the keyword-only parameters DimensionMismatchError.__init__ declares
DimensionMismatchErrorParams ==
    {"entered_dimenion", "entered_name", "expected_dimension", "expected_source"}

\* raise DimensionMismatchError(**kwargs): the exception the statement raises.
\* A call whose keywords are not exactly the declared ones raises TypeError.
DimensionMismatchError(kwargs) ==
    IF kwargs = DimensionMismatchErrorParams THEN "DimensionMismatchError"
    ELSE "TypeError"

\* the keywords every caller in cofi.utils passes
CallerKwargs ==
    {"entered_dimension", "entered_name", "expected_dimension", "expected_source"}

----------------------------------------------------------------------------
(* Finite-difference operators (findiff.FinDiff(axis, 1, order).matrix)    *)

REG_TYPES == {"damping", "flattening", "roughening", "smoothing"}

\* REG_TYPES[reg_type]
RegOrder(reg_type) ==
    CASE reg_type = "damping" -> 0
      [] reg_type \in {"flattening", "roughening"} -> 1
      [] reg_type = "smoothing" -> 2

\* entry (i, j) of the order-th derivative operator on n points: one-sided
\* stencils in the first and last row, central stencils in between
FinDiffCoef(order, n, i, j) ==
    IF order = 1 THEN
        IF i = 1 THEN
            (CASE j = 1 -> <<-3, 2>> [] j = 2 -> <<2, 1>> [] j = 3 -> <<-1, 2>>
               [] OTHER -> Zero)
        ELSE IF i = n THEN
            (CASE j = n - 2 -> <<1, 2>> [] j = n - 1 -> <<-2, 1>> [] j = n -> <<3, 2>>
               [] OTHER -> Zero)
        ELSE
            (CASE j = i - 1 -> <<-1, 2>> [] j = i + 1 -> <<1, 2>> [] OTHER -> Zero)
    ELSE
        IF i = 1 THEN
            (CASE j = 1 -> <<2, 1>> [] j = 2 -> <<-5, 1>> [] j = 3 -> <<4, 1>>
               [] j = 4 -> <<-1, 1>> [] OTHER -> Zero)
        ELSE IF i = n THEN
            (CASE j = n - 3 -> <<-1, 1>> [] j = n - 2 -> <<4, 1>>
               [] j = n - 1 -> <<-5, 1>> [] j = n -> <<2, 1>> [] OTHER -> Zero)
        ELSE
            (CASE j = i - 1 -> <<1, 1>> [] j = i -> <<-2, 1>> [] j = i + 1 -> <<1, 1>>
               [] OTHER -> Zero)

\* FinDiff(0, 1, order).matrix((n,)): an n x n sparse matrix
FinDiffMatrix1D(order, n) ==
    CsrMatrix(<<n, n>>,
              [k \in 1..(n * n) |->
                  FinDiffCoef(order, n, ((k - 1) \div n) + 1, ((k - 1) % n) + 1)])

\* FinDiff(axis, 1, order).matrix((nx, ny)): the operator along one axis of
\* the grid, acting on the grid flattened in C order
FinDiffMatrix2D(axis, order, nx, ny) ==
    LET M == nx * ny IN
    CsrMatrix(<<M, M>>,
              [k \in 1..(M * M) |->
                  LET r == (k - 1) \div M
                      c == (k - 1) % M
                      ri == r \div ny
                      rj == r % ny
                      ci == c \div ny
                      cj == c % ny
                  IN IF axis = 0
                     THEN (IF rj = cj THEN FinDiffCoef(order, nx, ri + 1, ci + 1)
                           ELSE Zero)
                     ELSE (IF ri = ci THEN FinDiffCoef(order, ny, rj + 1, cj + 1)
                           ELSE Zero)])

----------------------------------------------------------------------------
(* BaseRegularization.model_size                                           *)

\* reduce(lambda a, b: a * b, np.array(model_shape), 1): a 0-d array (the
\* shape is a bare number) cannot be iterated
ReduceShape(model_shape) ==
    IF model_shape.t = "tuple" THEN Ok(PyInt(Product(model_shape.v)))
    ELSE Raise("TypeError")

----------------------------------------------------------------------------
(* numpy arithmetic on call outcomes                                       *)

PyFloat(x) == [t |-> "float", v |-> x]

Ref(i) == [t |-> "ref", v |-> i]

\* a - b for 1-D arrays, with numpy's broadcasting of a one-element operand
NpSub(a, b) ==
    IF Len(a.data) = Len(b.data) THEN
        Ok(NdArray(a.shape, [i \in 1..Len(a.data) |-> FSub(a.data[i], b.data[i])]))
    ELSE IF Len(b.data) = 1 THEN
        Ok(NdArray(a.shape, [i \in 1..Len(a.data) |-> FSub(a.data[i], b.data[1])]))
    ELSE IF Len(a.data) = 1 THEN
        Ok(NdArray(b.shape, [i \in 1..Len(b.data) |-> FSub(a.data[1], b.data[i])]))
    ELSE Raise("ValueError")

\* x + y for two evaluated operands (a raised exception propagates)
PyAdd(x, y) ==
    IF x.exc # "" THEN x
    ELSE IF y.exc # "" THEN y
    ELSE IF x.val.t = "float" /\ y.val.t = "float"
        THEN Ok(PyFloat(FAdd(x.val.v, y.val.v)))
    ELSE IF x.val.t = "ndarray" /\ y.val.t = "ndarray" /\ x.val.shape = y.val.shape
        THEN Ok(ArrAdd(x.val, y.val))
    ELSE Raise("ValueError")

\* k * y for a number k and an evaluated operand
PyMul(k, y) ==
    IF y.exc # "" THEN y
    ELSE IF y.val.t = "float" THEN Ok(PyFloat(FMul(<<k.v, 1>>, y.val.v)))
    ELSE Ok(Scale(<<k.v, 1>>, y.val))

----------------------------------------------------------------------------
(* QuadraticReg                                                            *)

\* _validate_factor without the test of the sign
QuadraticReg_validate_factor_AnySign(factor) ==
    IF ~IsNumber(factor) THEN Raise("ValueError")
    ELSE Ok(factor)

QuadraticReg_validate_factor(factor) ==
    IF ~IsNumber(factor) THEN Raise("ValueError")
    ELSE IF factor.v < 0 THEN Raise("ValueError")
    ELSE Ok(factor)

QuadraticReg_validate_reg_type(reg_type) ==
    IF reg_type.t # "None" /\ (reg_type.t # "str" \/ reg_type.v \notin REG_TYPES)
    THEN Raise("ValueError")
    ELSE Ok(reg_type)

\* the 1-D branch of _generate_matrix
QuadraticReg_matrix_1d(model_size, order) ==
    IF model_size.t # "int" THEN Raise("TypeError")
    ELSE IF model_size.v < order + 2 THEN Raise("ValueError")
    ELSE Ok(ToArray(FinDiffMatrix1D(order, model_size.v)))

\* the 2-D branch of _generate_matrix
QuadraticReg_matrix_2d(model_size, order) ==
    LET nx == model_size.v[1]
        ny == model_size.v[2]
    IN IF nx < order + 2 \/ ny < order + 2 THEN Raise("ValueError")
       ELSE Ok(NpVstack(ToArray(FinDiffMatrix2D(0, order, nx, ny)),
                        ToArray(FinDiffMatrix2D(1, order, nx, ny))))

\* the bring-your-own branch without the test of the column count
QuadraticReg_matrix_byo_AnyColumns(model_size, byo_matrix) ==
    IF ~IsNumber(model_size) THEN Raise("ValueError")
    ELSE LET D == IF byo_matrix.t = "None" THEN NpIdentity(model_size.v)
                  ELSE byo_matrix
         IN IF Len(D.shape) # 2 THEN Raise("ValueError")
            ELSE Ok(D)

\* the bring-your-own branch of _generate_matrix
QuadraticReg_matrix_byo(model_size, byo_matrix) ==
    IF ~IsNumber(model_size) THEN Raise("ValueError")
    ELSE LET D == IF byo_matrix.t = "None" THEN NpIdentity(model_size.v)
                  ELSE byo_matrix
         IN IF Len(D.shape) # 2 THEN Raise("ValueError")
            ELSE IF D.shape[2] # model_size.v THEN Raise("ValueError")
            ELSE Ok(D)

\* _generate_matrix taking every shape of two or more dimensions as a grid
QuadraticReg_generate_matrix_AnyGrid(model_size, reg_type, byo_matrix) ==
    IF reg_type.t = "str" /\ reg_type.v = "damping" THEN
        IF ~IsNumber(model_size) THEN Raise("ValueError")
        ELSE Ok(NpIdentity(model_size.v))
    ELSE IF reg_type.t = "str" /\ reg_type.v \in REG_TYPES THEN
        IF NpSize(model_size) = 1
            THEN QuadraticReg_matrix_1d(model_size, RegOrder(reg_type.v))
        ELSE QuadraticReg_matrix_2d(model_size, RegOrder(reg_type.v))
    ELSE IF reg_type.t = "None" THEN QuadraticReg_matrix_byo(model_size, byo_matrix)
    ELSE Ok(PyNone)

\* _generate_matrix: the value of self._D, or the exception raised
QuadraticReg_generate_matrix(model_size, reg_type, byo_matrix) ==
    IF reg_type.t = "str" /\ reg_type.v = "damping" THEN
        IF ~IsNumber(model_size) THEN Raise("ValueError")
        ELSE Ok(NpIdentity(model_size.v))
    ELSE IF reg_type.t = "str" /\ reg_type.v \in REG_TYPES THEN
        IF NpSize(model_size) = 1
            THEN QuadraticReg_matrix_1d(model_size, RegOrder(reg_type.v))
        ELSE IF NpSize(model_size) = 2 /\ NpNdim(model_size) = 1
            THEN QuadraticReg_matrix_2d(model_size, RegOrder(reg_type.v))
        ELSE Raise("NotImplementedError")
    ELSE IF reg_type.t = "None" THEN QuadraticReg_matrix_byo(model_size, byo_matrix)
    ELSE Ok(PyNone)

\* QuadraticReg(factor, model_size, reg_type, ref_model, byo_matrix): the new
\* object, or the exception raised
QuadraticReg_init(a) ==
    LET f == QuadraticReg_validate_factor(a.factor)
        rt == QuadraticReg_validate_reg_type(a.reg_type)
        D == QuadraticReg_generate_matrix(a.model_size, a.reg_type, a.byo_matrix)
    IN IF f.exc # "" THEN f
       ELSE IF rt.exc # "" THEN rt
       ELSE IF D.exc # "" THEN D
       ELSE Ok([cls |-> "QuadraticReg",
                _factor |-> a.factor,
                _model_size |-> a.model_size,
                _reg_type |-> a.reg_type,
                _ref_model |-> a.ref_model,
                _byo_matrix |-> a.byo_matrix,
                _D |-> D.val])

QuadraticReg_model_shape(self) == Ok(self._model_size)

QuadraticReg_model_size(self) ==
    IF NpNdim(self._model_size) # 0 THEN ReduceShape(self._model_size)
    ELSE Ok(self._model_size)

\* _validate_model: the flattened model, or the exception raised
QuadraticReg_validate_model(self, model) ==
    LET flat_m == NpRavel(model)
        size == QuadraticReg_model_size(self)
    IN IF size.exc # "" THEN size
       ELSE IF Len(flat_m.data) # size.val.v
           THEN Raise(DimensionMismatchError(CallerKwargs))
       ELSE Ok(flat_m)

QuadraticReg_factor(self) == <<self._factor.v, 1>>

QuadraticReg_is_damping(self) ==
    self._reg_type.t = "str" /\ self._reg_type.v = "damping"

\* QuadraticReg.reg with the reference model left out of the damping branch
QuadraticReg_reg_NoRefModel(self, model) ==
    LET flat_m == QuadraticReg_validate_model(self, model)
        f == QuadraticReg_factor(self)
        weighted_m == MatVec(self._D, flat_m.val)
    IN IF flat_m.exc # "" THEN flat_m
       ELSE Ok(PyFloat(Dot(Scale(f, weighted_m), weighted_m)))

\* QuadraticReg.reg with the reference model subtracted for every reg_type
QuadraticReg_reg_RefModelAlways(self, model) ==
    LET flat_m == QuadraticReg_validate_model(self, model)
        f == QuadraticReg_factor(self)
    IN IF flat_m.exc # "" THEN flat_m
       ELSE LET diff_ref == IF self._ref_model.t = "None" THEN flat_m
                            ELSE NpSub(flat_m.val, self._ref_model)
            IN IF diff_ref.exc # "" THEN diff_ref
               ELSE LET weighted_m == MatVec(self._D, diff_ref.val)
                    IN Ok(PyFloat(Dot(Scale(f, weighted_m), weighted_m)))

QuadraticReg_reg(self, model) ==
    LET flat_m == QuadraticReg_validate_model(self, model)
        f == QuadraticReg_factor(self)
    IN IF flat_m.exc # "" THEN flat_m
       ELSE IF QuadraticReg_is_damping(self) THEN
           IF self._ref_model.t = "None"
           THEN Ok(PyFloat(Dot(Scale(f, flat_m.val), flat_m.val)))
           ELSE LET diff_ref == NpSub(flat_m.val, self._ref_model)
                IN IF diff_ref.exc # "" THEN diff_ref
                   ELSE Ok(PyFloat(Dot(Scale(f, diff_ref.val), diff_ref.val)))
       ELSE LET weighted_m == MatVec(self._D, flat_m.val)
            IN Ok(PyFloat(Dot(Scale(f, weighted_m), weighted_m)))

\* QuadraticReg.gradient with D.T left out: 2 * factor * D @ m
QuadraticReg_gradient_NoTranspose(self, model) ==
    LET flat_m == QuadraticReg_validate_model(self, model)
        f2 == FMul(<<2, 1>>, QuadraticReg_factor(self))
    IN IF flat_m.exc # "" THEN flat_m
       ELSE Ok(MatVec(Scale(f2, self._D), flat_m.val))

QuadraticReg_gradient(self, model) ==
    LET flat_m == QuadraticReg_validate_model(self, model)
        f2 == FMul(<<2, 1>>, QuadraticReg_factor(self))
    IN IF flat_m.exc # "" THEN flat_m
       ELSE IF QuadraticReg_is_damping(self) THEN
           IF self._ref_model.t = "None" THEN Ok(Scale(f2, flat_m.val))
           ELSE LET diff_ref == NpSub(flat_m.val, self._ref_model)
                IN IF diff_ref.exc # "" THEN diff_ref
                   ELSE Ok(Scale(f2, diff_ref.val))
       ELSE Ok(MatVec(MatMul(Scale(f2, Transpose(self._D)), self._D), flat_m.val))

\* QuadraticReg.hessian with np.diag(flat_m) for np.eye(model_size)
QuadraticReg_hessian_DiagOfModel(self, model) ==
    LET f2 == FMul(<<2, 1>>, QuadraticReg_factor(self))
    IN IF QuadraticReg_is_damping(self)
       THEN Ok(Scale(f2, NpDiag(NpRavel(model))))
       ELSE Ok(MatMul(Scale(f2, Transpose(self._D)), self._D))

QuadraticReg_hessian(self, model) ==
    LET f2 == FMul(<<2, 1>>, QuadraticReg_factor(self))
    IN IF QuadraticReg_is_damping(self)
       THEN Ok(Scale(f2, NpIdentity(self._model_size.v)))
       ELSE Ok(MatMul(Scale(f2, Transpose(self._D)), self._D))

----------------------------------------------------------------------------
(* LpNormRegularization                                                    *)

\* _validate_p with "p < 0" for "p <= 0"
LpNorm_validate_p_ZeroAccepted(p) ==
    IF ~(IsNumber(p) \/ p.t = "float") THEN Raise("ValueError")
    ELSE IF FLeqZero(Num(p)) /\ Num(p) # Zero THEN Raise("ValueError")
    ELSE Ok(p)

\* the order is an int or a float
LpNorm_validate_p(p) ==
    IF ~(IsNumber(p) \/ p.t = "float") THEN Raise("ValueError")
    ELSE IF FLeqZero(Num(p)) THEN Raise("ValueError")
    ELSE Ok(p)

LpNorm_validate_shape(model_shape, reference_model) ==
    IF model_shape.t = "None" /\ reference_model.t = "None" THEN Raise("ValueError")
    ELSE IF model_shape.t = "None" THEN Ok(PyTuple(reference_model.shape))
    ELSE IF reference_model.t = "None" THEN Ok(model_shape)
    ELSE IF PyTuple(reference_model.shape) # model_shape
        THEN Raise(DimensionMismatchError(CallerKwargs))
    ELSE Ok(model_shape)

\* the 1-D branch of _generate_matrix; the message of its ValueError reads
\* self._reg_type, an attribute this class never sets
LpNorm_matrix_1d(model_size, order) ==
    IF model_size < order + 2 THEN Raise("AttributeError")
    ELSE Ok(FinDiffMatrix1D(order, model_size))

\* the 2-D branch of _generate_matrix. findiff is handed the grid as it is;
\* an axis shorter than the stencil makes its matrix assembly fail
LpNorm_matrix_2d(model_shape, order) ==
    LET nx == model_shape.v[1]
        ny == model_shape.v[2]
    IN IF nx > order + 2 \/ ny < order + 2 THEN Raise("AttributeError")
       ELSE IF nx < order + 2 THEN Raise("IndexError")
       ELSE Ok(NpVstack(ToArray(FinDiffMatrix2D(0, order, nx, ny)),
                        ToArray(FinDiffMatrix2D(1, order, nx, ny))))

\* the bring-your-own branch without the test of the column count
LpNorm_matrix_byo_AnyColumns(weighting_matrix, size) ==
    IF Len(weighting_matrix.shape) # 2 THEN Raise("ValueError")
    ELSE IF size.exc # "" THEN size
    ELSE Ok(ToCsr(weighting_matrix))

\* the bring-your-own branch of _generate_matrix
LpNorm_matrix_byo(weighting_matrix, size) ==
    IF Len(weighting_matrix.shape) # 2 THEN Raise("ValueError")
    ELSE IF size.exc # "" THEN size
    ELSE IF weighting_matrix.shape[2] # size.val.v THEN Raise("ValueError")
    ELSE Ok(ToCsr(weighting_matrix))

\* _generate_matrix: the value of self._weighting_matrix, or the exception
LpNorm_generate_matrix(weighting_matrix, model_shape) ==
    LET size == ReduceShape(model_shape)
        w == weighting_matrix
    IN IF (w.t = "str" /\ w.v \in REG_TYPES) \/ w.t = "None" THEN
           IF w.t = "None" \/ w.v = "damping" THEN
               IF size.exc # "" THEN size
               ELSE Ok(ToCsr(NpIdentity(size.val.v)))
           ELSE IF NpSize(model_shape) = 1 THEN
               IF size.exc # "" THEN size
               ELSE LpNorm_matrix_1d(size.val.v, RegOrder(w.v))
           ELSE IF NpSize(model_shape) = 2 /\ NpNdim(model_shape) = 1
               THEN LpNorm_matrix_2d(model_shape, RegOrder(w.v))
           ELSE Raise("NotImplementedError")
       ELSE IF IsMatrix(w) THEN LpNorm_matrix_byo(w, size)
       ELSE Raise("ValueError")

\* LpNormRegularization(p, weighting_matrix, model_shape, reference_model): the
\* new object, or the exception raised
LpNorm_init(a) ==
    LET p == LpNorm_validate_p(a.p)
        shape == LpNorm_validate_shape(a.model_shape, a.reference_model)
        W == LpNorm_generate_matrix(a.weighting_matrix, shape.val)
    IN IF p.exc # "" THEN p
       ELSE IF shape.exc # "" THEN shape
       ELSE IF W.exc # "" THEN W
       ELSE Ok([cls |-> "LpNormRegularization",
                _order |-> a.p,
                _weighting_matrix |-> W.val,
                _model_shape |-> shape.val,
                _reference_model |-> a.reference_model])

LpNorm_model_shape(self) == Ok(self._model_shape)

LpNorm_model_size(self) == ReduceShape(self._model_shape)

\* _validate_model: the flattened model, or the exception raised. Building
\* the error reads self._model_size, an attribute this class never sets
LpNorm_validate_model(self, model) ==
    LET flat_m == NpRavel(model)
        size == LpNorm_model_size(self)
    IN IF size.exc # "" THEN size
       ELSE IF Len(flat_m.data) # size.val.v THEN Raise("AttributeError")
       ELSE Ok(flat_m)

LpNorm_model_diff_to_ref(self, model) ==
    IF self._reference_model.t = "None" THEN Ok(model)
    ELSE NpSub(model, NpRavel(self._reference_model))

\* _lp_norm without np.abs
LpNorm_lp_norm_NoAbs(self, mat) ==
    PyFloat(FSum([i \in 1..Len(mat.data) |-> FPower(mat.data[i], Num(self._order))]))

\* np.sum(np.abs(mat) ** p)
LpNorm_lp_norm(self, mat) ==
    PyFloat(FSum([i \in 1..Len(mat.data) |->
                    FPower(FAbs(mat.data[i]), Num(self._order))]))

\* _lp_norm_gradient without the factor self._order
LpNorm_lp_norm_gradient_NoOrder(self, mat) ==
    LET p == Num(self._order) IN
    NdArray(mat.shape,
            [i \in 1..Len(mat.data) |->
                FMul(FPower(FAbs(mat.data[i]), FSub(p, <<1, 1>>)),
                     FSign(mat.data[i]))])

\* p * np.abs(mat) ** (p - 1) * np.sign(mat)
LpNorm_lp_norm_gradient(self, mat) ==
    LET p == Num(self._order) IN
    NdArray(mat.shape,
            [i \in 1..Len(mat.data) |->
                FMul(FMul(p, FPower(FAbs(mat.data[i]), FSub(p, <<1, 1>>))),
                     FSign(mat.data[i]))])

\* _lp_norm_hessian with 0 put where the residual is 0
LpNorm_lp_norm_hessian_ZeroGuarded(self, mat) ==
    LET p == Num(self._order) IN
    NdArray(mat.shape,
            [i \in 1..Len(mat.data) |->
                IF mat.data[i] = Zero THEN Zero
                ELSE FMul(FMul(p, FSub(p, <<1, 1>>)),
                          FPower(FAbs(mat.data[i]), FSub(p, <<2, 1>>)))])

\* p * (p - 1) * np.abs(mat) ** (p - 2)
LpNorm_lp_norm_hessian(self, mat) ==
    LET p == Num(self._order) IN
    NdArray(mat.shape,
            [i \in 1..Len(mat.data) |->
                FMul(FMul(p, FSub(p, <<1, 1>>)),
                     FPower(FAbs(mat.data[i]), FSub(p, <<2, 1>>)))])

\* W @ (m - m0), or the exception raised on the way
LpNorm_weighted_diff(self, model) ==
    LET flat_m == LpNorm_validate_model(self, model)
        diff_m == LpNorm_model_diff_to_ref(self, flat_m.val)
    IN IF flat_m.exc # "" THEN flat_m
       ELSE IF diff_m.exc # "" THEN diff_m
       ELSE Ok(MatVec(self._weighting_matrix, diff_m.val))

LpNorm_reg(self, model) ==
    LET weighted_diff_m == LpNorm_weighted_diff(self, model)
    IN IF weighted_diff_m.exc # "" THEN weighted_diff_m
       ELSE Ok(LpNorm_lp_norm(self, weighted_diff_m.val))

LpNorm_gradient(self, model) ==
    LET weighted_diff_m == LpNorm_weighted_diff(self, model)
    IN IF weighted_diff_m.exc # "" THEN weighted_diff_m
       ELSE Ok(MatVec(Transpose(self._weighting_matrix),
                      LpNorm_lp_norm_gradient(self, weighted_diff_m.val)))

LpNorm_hessian(self, model) ==
    LET W == self._weighting_matrix
        weighted_diff_m == LpNorm_weighted_diff(self, model)
    IN IF weighted_diff_m.exc # "" THEN weighted_diff_m
       ELSE Ok(MatMul(MatMul(Transpose(W),
                             NpDiag(LpNorm_lp_norm_hessian(self, weighted_diff_m.val))),
                      W))

----------------------------------------------------------------------------
(* BaseRegularization and CompositeRegularization, over a heap h of objects *)

IsTerm(h, x) == x.t = "ref" /\ x.v \in 1..Len(h)

IsComposite(t) == t.cls = "CompositeRegularization"

\* CompositeRegularization(base, other=None, coefficient=None)
CompositeRegularization_init(base, other, coefficient) ==
    [cls |-> "CompositeRegularization",
     base |-> base, other |-> other, coefficient |-> coefficient]

\* the model_shape property of the object at h[i]
RECURSIVE model_shape(_, _)
model_shape(h, i) ==
    LET self == h[i] IN
    CASE self.cls = "QuadraticReg" -> QuadraticReg_model_shape(self)
      [] self.cls = "LpNormRegularization" -> LpNorm_model_shape(self)
      [] self.cls = "CompositeRegularization" -> model_shape(h, self.base.v)

\* BaseRegularization.model_size, which CompositeRegularization inherits
BaseRegularization_model_size(shape) ==
    IF shape.exc # "" THEN shape ELSE ReduceShape(shape.val)

\* the model_size property of the object at h[i]
model_size(h, i) ==
    LET self == h[i] IN
    CASE self.cls = "QuadraticReg" -> QuadraticReg_model_size(self)
      [] self.cls = "LpNormRegularization" -> LpNorm_model_size(self)
      [] self.cls = "CompositeRegularization" ->
            BaseRegularization_model_size(model_shape(h, i))

\* bool(x) of an attribute that holds None or an object without __bool__
Truthy(x) == x.t # "None"

\* the composite's body with the right operand of + left out
CompositeRegularization_eval_BaseOnly(self, base_out, other_out) ==
    IF Truthy(self.other) THEN base_out
    ELSE IF self.coefficient.t # "None" THEN PyMul(self.coefficient, base_out)
    ELSE Ok(PyNone)

\* the composite's body with "elif self.coefficient:" for "is not None"
CompositeRegularization_eval_TruthyCoefficient(self, base_out, other_out) ==
    IF Truthy(self.other) THEN PyAdd(base_out, other_out)
    ELSE IF self.coefficient.t # "None" /\ self.coefficient.v # 0
        THEN PyMul(self.coefficient, base_out)
    ELSE Ok(PyNone)

\* the body shared by CompositeRegularization.reg, .gradient and .hessian,
\* given what the same method returns on base and on other
CompositeRegularization_eval(self, base_out, other_out) ==
    IF Truthy(self.other) THEN PyAdd(base_out, other_out)
    ELSE IF self.coefficient.t # "None" THEN PyMul(self.coefficient, base_out)
    ELSE Ok(PyNone)

\* h[i].method(model) for method in {"reg", "gradient", "hessian"}
RECURSIVE Evaluate(_, _, _, _)
Evaluate(h, i, method, model) ==
    LET self == h[i] IN
    CASE self.cls = "QuadraticReg" ->
            (CASE method = "reg" -> QuadraticReg_reg(self, model)
               [] method = "gradient" -> QuadraticReg_gradient(self, model)
               [] method = "hessian" -> QuadraticReg_hessian(self, model))
      [] self.cls = "LpNormRegularization" ->
            (CASE method = "reg" -> LpNorm_reg(self, model)
               [] method = "gradient" -> LpNorm_gradient(self, model)
               [] method = "hessian" -> LpNorm_hessian(self, model))
      [] self.cls = "CompositeRegularization" ->
            CompositeRegularization_eval(
                self,
                Evaluate(h, self.base.v, method, model),
                IF self.other.t = "ref" THEN Evaluate(h, self.other.v, method, model)
                ELSE Ok(PyNone))

\* __add__ without the isinstance test: a number has no model_size
__add___NoTypeCheck(h, i, other_reg) ==
    IF ~IsTerm(h, other_reg) THEN
        IF model_size(h, i).exc # "" THEN model_size(h, i)
        ELSE Raise("AttributeError")
    ELSE LET mine == model_size(h, i)
             theirs == model_size(h, other_reg.v)
         IN IF mine.exc # "" THEN mine
            ELSE IF theirs.exc # "" THEN theirs
            ELSE IF mine.val.v # theirs.val.v
                THEN Raise(DimensionMismatchError(CallerKwargs))
            ELSE Ok(CompositeRegularization_init(Ref(i), other_reg, PyNone))

\* self + other_reg: the new composite, or the exception raised
__add__(h, i, other_reg) ==
    IF ~IsTerm(h, other_reg) THEN Raise("TypeError")
    ELSE LET mine == model_size(h, i)
             theirs == model_size(h, other_reg.v)
         IN IF mine.exc # "" THEN mine
            ELSE IF theirs.exc # "" THEN theirs
            ELSE IF mine.val.v # theirs.val.v
                THEN Raise(DimensionMismatchError(CallerKwargs))
            ELSE Ok(CompositeRegularization_init(Ref(i), other_reg, PyNone))

\* __rmul__ passing "coefficient or None" on
__rmul___NoneForZero(h, i, coefficient) ==
    IF ~IsNumber(coefficient) THEN Raise("TypeError")
    ELSE Ok(CompositeRegularization_init(
                Ref(i), PyNone, IF coefficient.v = 0 THEN PyNone ELSE coefficient))

\* coefficient * self: the new composite, or the exception raised
__rmul__(h, i, coefficient) ==
    IF ~IsNumber(coefficient) THEN Raise("TypeError")
    ELSE Ok(CompositeRegularization_init(Ref(i), PyNone, coefficient))

----------------------------------------------------------------------------
(* The caller's inputs                                                     *)

Values == (0 - MaxVal)..MaxVal

\* the model 1, 2, ..., n
Ramp(n) == Vec([k \in 1..n |-> k])

\* the models of n entries: s[1], s[2], s[1], ... for every s over Values,
\* and the ramp
ModelsOfSize(n) ==
    {Vec([k \in 1..n |-> s[((k - 1) % 2) + 1]]) : s \in [1..2 -> Values]}
        \cup {Ramp(n)}

\* a model of n entries, each 1
Ones(n) == Vec([k \in 1..n |-> 1])

\* the number of unknowns of the object at h[i], read off its leftmost leaf
RECURSIVE LeafSize(_, _)
LeafSize(h, i) ==
    IF h[i].cls = "CompositeRegularization" THEN LeafSize(h, h[i].base.v)
    ELSE model_size(h, i).val.v

\* the models a caller passes to the object at h[i]: those of its size, and
\* models with one entry more and one entry less
ModelsFor(h, i) ==
    LET M == LeafSize(h, i) IN
    ModelsOfSize(M) \cup {Ones(M + 1)} \cup (IF M > 1 THEN {Ones(M - 1)} ELSE {})

QArgs(factor, size, reg_type, ref_model, byo_matrix) ==
    [factor |-> factor, model_size |-> size, reg_type |-> reg_type,
     ref_model |-> ref_model, byo_matrix |-> byo_matrix]

LArgs(p, weighting_matrix, shape, reference_model) ==
    [p |-> p, weighting_matrix |-> weighting_matrix, model_shape |-> shape,
     reference_model |-> reference_model]

\* a 3 x 2 weighting matrix (more rows than columns)
Tall == NdArray(<<3, 2>>, Vec(<<1, 0, 0, 1, 1, -1>>).data)

\* the terms the algebra is exercised on: two of 2 unknowns, two of 3
QuadraticRegArgs ==
    { QArgs(PyInt(2), PyInt(2), PyStr("damping"), Vec(<<1, -1>>), PyNone),
      QArgs(PyInt(1), PyInt(3), PyStr("flattening"), PyNone, PyNone),
      QArgs(PyInt(-1), PyInt(2), PyStr("damping"), PyNone, PyNone) }

LpNormArgs ==
    { LArgs(PyInt(1), PyStr("damping"), PyNone, Vec(<<1, -1>>)),
      LArgs(PyInt(3), PyStr("flattening"), PyTuple(<<3>>), PyNone),
      LArgs(PyInt(0), PyStr("damping"), PyTuple(<<2>>), PyNone) }

\* the terms evaluated one at a time: every kind of weighting, with and
\* without a reference model
TermQuadraticRegArgs ==
    { QArgs(PyInt(1), PyInt(2), PyStr("damping"), PyNone, PyNone),
      QArgs(PyInt(2), PyInt(2), PyStr("damping"), Vec(<<1, -1>>), PyNone),
      QArgs(PyInt(0), PyInt(2), PyStr("damping"), PyNone, PyNone),
      QArgs(PyInt(1), PyInt(3), PyStr("damping"), PyNone, PyNone),
      QArgs(PyInt(2), PyInt(3), PyStr("damping"), Vec(<<1, 0, -1>>), PyNone),
      QArgs(PyInt(1), PyInt(3), PyStr("flattening"), PyNone, PyNone),
      QArgs(PyInt(2), PyInt(3), PyStr("flattening"), Vec(<<1, 0, -1>>), PyNone),
      QArgs(PyInt(1), PyInt(3), PyStr("roughening"), PyNone, PyNone),
      QArgs(PyInt(1), PyInt(4), PyStr("smoothing"), PyNone, PyNone),
      QArgs(PyInt(2), PyInt(4), PyStr("smoothing"), Vec(<<1, 0, 0, -1>>), PyNone),
      QArgs(PyInt(1), PyInt(2), PyNone, PyNone, PyNone),
      QArgs(PyInt(1), PyInt(2), PyNone, PyNone, Tall),
      QArgs(PyInt(2), PyInt(2), PyNone, Vec(<<1, -1>>), Tall),
      QArgs(PyInt(1), PyTuple(<<3, 3>>), PyStr("flattening"), PyNone, PyNone),
      QArgs(PyInt(-1), PyInt(2), PyStr("damping"), PyNone, PyNone),
      QArgs(PyInt(1), PyInt(2), PyStr("flattening"), PyNone, PyNone) }

TermLpNormArgs ==
    { LArgs(PyInt(2), PyStr("damping"), PyTuple(<<2>>), PyNone),
      LArgs(PyInt(1), PyStr("damping"), PyNone, Vec(<<1, -1>>)),
      LArgs(PyInt(3), PyStr("damping"), PyTuple(<<3>>), Vec(<<1, 0, -1>>)),
      LArgs(PyInt(2), PyStr("flattening"), PyTuple(<<3>>), PyNone),
      LArgs(PyInt(1), PyStr("smoothing"), PyTuple(<<4>>), PyNone),
      LArgs(PyInt(2), Tall, PyTuple(<<2>>), PyNone),
      LArgs(PyInt(3), Tall, PyTuple(<<2>>), Vec(<<1, -1>>)),
      LArgs(PyInt(2), PyStr("flattening"), PyTuple(<<3, 3>>), PyNone),
      LArgs(PyInt(0), PyStr("damping"), PyTuple(<<2>>), PyNone) }

\* the right operands of +: every object, and a number
Operands(h) == {Ref(j) : j \in 1..Len(h)} \cup {PyInt(1)}

\* the left operands of *: small integers, and a string
Coefficients == {PyInt(k) : k \in (0 - MaxCoef)..MaxCoef} \cup {PyStr("2")}

----------------------------------------------------------------------------
(* The state machine: heap holds the objects constructed so far, last the  *)
(* call in progress and what it returned or raised, threads the call stack *)
(* of each thread that evaluates terms beside the caller                   *)

Call(op, self, arg, out) == [op |-> op, self |-> self, arg |-> arg, out |-> out]

NoCall == Call("", 0, PyNone, Ok(PyNone))

Idle == last.op = ""

Threads == 1..MaxThreads

\* a thread that is in no call
IdleThread == [stack |-> <<>>, call |-> PyNone, out |-> Ok(PyNone)]

Init ==
    /\ heap = <<>>
    /\ last = NoCall
    /\ threads = [t \in Threads |-> IdleThread]

\* a call that returns a new object r.val, or raises r.exc; cap bounds the
\* number of objects
Construct(op, self, arg, r, cap) ==
    IF r.exc = "" THEN
        /\ Len(heap) < cap
        /\ heap' = Append(heap, r.val)
        /\ last' = Call(op, self, arg, Ok(Ref(Len(heap) + 1)))
        /\ UNCHANGED threads
    ELSE
        /\ heap' = heap
        /\ last' = Call(op, self, arg, r)
        /\ UNCHANGED threads

NewQuadraticReg(a, cap) ==
    /\ Idle
    /\ Construct("QuadraticReg", 0, a, QuadraticReg_init(a), cap)

NewLpNormRegularization(a, cap) ==
    /\ Idle
    /\ Construct("LpNormRegularization", 0, a, LpNorm_init(a), cap)

CallAdd(i, other_reg, cap) ==
    /\ Idle
    /\ Construct("__add__", i, other_reg, __add__(heap, i, other_reg), cap)

CallRmul(coefficient, i, cap) ==
    /\ Idle
    /\ Construct("__rmul__", i, coefficient, __rmul__(heap, i, coefficient), cap)

\* reg leaving the flattened model behind in self._ref_model
CallReg_KeepsModel(i, model) ==
    /\ Idle
    /\ last' = Call("reg", i, model, Evaluate(heap, i, "reg", model))
    /\ heap' = [heap EXCEPT ![i] =
                    IF @.cls = "QuadraticReg"
                    THEN [@ EXCEPT !._ref_model = NpRavel(model)]
                    ELSE @]
    /\ UNCHANGED threads

CallReg(i, model) ==
    /\ Idle
    /\ last' = Call("reg", i, model, Evaluate(heap, i, "reg", model))
    /\ UNCHANGED <<heap, threads>>

CallGradient(i, model) ==
    /\ Idle
    /\ last' = Call("gradient", i, model, Evaluate(heap, i, "gradient", model))
    /\ UNCHANGED <<heap, threads>>

CallHessian(i, model) ==
    /\ Idle
    /\ last' = Call("hessian", i, model, Evaluate(heap, i, "hessian", model))
    /\ UNCHANGED <<heap, threads>>

GetModelSize(i) ==
    /\ Idle
    /\ last' = Call("model_size", i, PyNone, model_size(heap, i))
    /\ UNCHANGED <<heap, threads>>

GetModelShape(i) ==
    /\ Idle
    /\ last' = Call("model_shape", i, PyNone, model_shape(heap, i))
    /\ UNCHANGED <<heap, threads>>

\* the call returns to its caller
Return ==
    /\ ~Idle
    /\ last' = NoCall
    /\ UNCHANGED <<heap, threads>>

\* one step of a caller that constructs terms from the argument sets QA and
\* LA (at most baseCap objects), composes them (at most cap objects) and
\* evaluates them
Step(QA, LA, baseCap, cap) ==
    \/ \E a \in QA : NewQuadraticReg(a, baseCap)
    \/ \E a \in LA : NewLpNormRegularization(a, baseCap)
    \/ \E i \in 1..Len(heap) : \E x \in Operands(heap) : CallAdd(i, x, cap)
    \/ \E i \in 1..Len(heap) : \E k \in Coefficients : CallRmul(k, i, cap)
    \/ \E i \in 1..Len(heap) : \E m \in ModelsFor(heap, i) : CallReg(i, m)
    \/ \E i \in 1..Len(heap) : \E m \in ModelsFor(heap, i) : CallGradient(i, m)
    \/ \E i \in 1..Len(heap) : \E m \in ModelsFor(heap, i) : CallHessian(i, m)
    \/ \E i \in 1..Len(heap) : GetModelSize(i)
    \/ \E i \in 1..Len(heap) : GetModelShape(i)
    \/ Return

\* the term algebra: a few terms, composed freely
Next == Step(QuadraticRegArgs, LpNormArgs, MaxTerms, MaxTerms)

Spec == Init /\ [][Next]_vars

\* single terms of every kind, and the composites built on one term
NextTerms == Step(TermQuadraticRegArgs, TermLpNormArgs, MaxBase, MaxBase + 1)

SpecTerms == Init /\ [][NextTerms]_vars

\* the terms compared pairwise: an LpNormRegularization of order 2 and a
\* QuadraticReg of factor 1 for each weighting and reference model
PairQuadraticRegArgs ==
    { QArgs(PyInt(1), PyInt(2), PyStr("damping"), PyNone, PyNone),
      QArgs(PyInt(1), PyInt(2), PyStr("damping"), Vec(<<1, -1>>), PyNone),
      QArgs(PyInt(1), PyInt(3), PyStr("flattening"), PyNone, PyNone),
      QArgs(PyInt(1), PyInt(3), PyStr("flattening"), Vec(<<1, 0, -1>>), PyNone),
      QArgs(PyInt(1), PyInt(4), PyStr("smoothing"), PyNone, PyNone),
      QArgs(PyInt(1), PyInt(2), PyNone, PyNone, Tall) }

PairLpNormArgs ==
    { LArgs(PyInt(2), PyStr("damping"), PyTuple(<<2>>), PyNone),
      LArgs(PyInt(2), PyStr("damping"), PyNone, Vec(<<1, -1>>)),
      LArgs(PyInt(2), PyStr("flattening"), PyTuple(<<3>>), PyNone),
      LArgs(PyInt(2), PyStr("flattening"), PyTuple(<<3>>), Vec(<<1, 0, -1>>)),
      LArgs(PyInt(2), PyStr("smoothing"), PyTuple(<<4>>), PyNone),
      LArgs(PyInt(2), Tall, PyTuple(<<2>>), PyNone) }

\* two terms side by side
NextPairs == Step(PairQuadraticRegArgs, PairLpNormArgs, MaxBase + 1, MaxBase + 1)

SpecPairs == Init /\ [][NextPairs]_vars

\* the constructor arguments at the edge of what the constructors accept:
\* factors and orders around zero, grids around the stencil width, every
\* kind of weighting and a kind that does not exist
BuildQuadraticRegArgs ==
    { QArgs(PyInt(-1), PyInt(2), PyStr("damping"), PyNone, PyNone),
      QArgs(PyInt(0), PyInt(2), PyStr("damping"), PyNone, PyNone),
      QArgs(PyStr("1"), PyInt(2), PyStr("damping"), PyNone, PyNone),
      QArgs(PyInt(2), PyInt(3), PyStr("damping"), Vec(<<1, 0, -1>>), PyNone),
      QArgs(PyInt(1), PyInt(2), PyStr("flattening"), PyNone, PyNone),
      QArgs(PyInt(1), PyInt(3), PyStr("flattening"), PyNone, PyNone),
      QArgs(PyInt(1), PyInt(3), PyStr("roughening"), PyNone, PyNone),
      QArgs(PyInt(1), PyInt(3), PyStr("smoothing"), PyNone, PyNone),
      QArgs(PyInt(1), PyInt(4), PyStr("smoothing"), PyNone, PyNone),
      QArgs(PyInt(1), PyTuple(<<3, 3>>), PyStr("flattening"), PyNone, PyNone),
      QArgs(PyInt(1), PyTuple(<<4, 3>>), PyStr("flattening"), PyNone, PyNone),
      QArgs(PyInt(1), PyTuple(<<2, 3>>), PyStr("flattening"), PyNone, PyNone),
      QArgs(PyInt(1), PyTuple(<<3, 2>>), PyStr("flattening"), PyNone, PyNone),
      QArgs(PyInt(1), PyTuple(<<3, 3>>), PyStr("damping"), PyNone, PyNone),
      QArgs(PyInt(1), PyTuple(<<2, 2, 2>>), PyStr("flattening"), PyNone, PyNone),
      QArgs(PyInt(1), PyInt(3), PyStr("ridge"), PyNone, PyNone),
      QArgs(PyInt(1), PyInt(2), PyNone, PyNone, PyNone),
      QArgs(PyInt(1), PyInt(2), PyNone, PyNone, Tall),
      QArgs(PyInt(1), PyInt(3), PyNone, PyNone, Tall) }

BuildLpNormArgs ==
    { LArgs(PyInt(0), PyStr("damping"), PyTuple(<<2>>), PyNone),
      LArgs(PyInt(-1), PyStr("damping"), PyTuple(<<2>>), PyNone),
      LArgs(PyStr("2"), PyStr("damping"), PyTuple(<<2>>), PyNone),
      LArgs(PyInt(1), PyStr("damping"), PyTuple(<<2>>), PyNone),
      LArgs(PyInt(3), PyStr("damping"), PyTuple(<<3>>), Vec(<<1, 0, -1>>)),
      LArgs(PyInt(2), PyStr("flattening"), PyTuple(<<2>>), PyNone),
      LArgs(PyInt(2), PyStr("flattening"), PyTuple(<<3>>), PyNone),
      LArgs(PyInt(2), PyStr("roughening"), PyTuple(<<3>>), PyNone),
      LArgs(PyInt(2), PyStr("smoothing"), PyTuple(<<3>>), PyNone),
      LArgs(PyInt(2), PyStr("smoothing"), PyTuple(<<4>>), PyNone),
      LArgs(PyInt(2), PyStr("flattening"), PyTuple(<<3, 3>>), PyNone),
      LArgs(PyInt(2), PyStr("flattening"), PyTuple(<<4, 3>>), PyNone),
      LArgs(PyInt(2), PyStr("flattening"), PyTuple(<<3, 2>>), PyNone),
      LArgs(PyInt(2), PyStr("damping"), PyTuple(<<3, 3>>), PyNone),
      LArgs(PyInt(2), PyStr("flattening"), PyTuple(<<2, 2, 2>>), PyNone),
      LArgs(PyInt(2), PyStr("ridge"), PyTuple(<<3>>), PyNone),
      LArgs(PyInt(2), PyNone, PyTuple(<<2>>), PyNone),
      LArgs(PyInt(2), Tall, PyTuple(<<2>>), PyNone),
      LArgs(PyInt(2), Tall, PyTuple(<<3>>), PyNone),
      LArgs(PyInt(2), Vec(<<1, -1>>), PyTuple(<<2>>), PyNone) }

\* construction at the edges, and the use of what was constructed
NextBuild == Step(BuildQuadraticRegArgs, BuildLpNormArgs, MaxBase, MaxBase + 1)

SpecBuild == Init /\ [][NextBuild]_vars

----------------------------------------------------------------------------
(* Arrays the caller owns. A constructor stores the array it is handed     *)
(* (self._ref_model = ref_model, self._byo_matrix = byo_matrix,            *)
(* self._D = self._byo_matrix, self._reference_model = reference_model):   *)
(* the attribute and the caller's variable name one object. Only           *)
(* scipy.sparse.csr_matrix(weighting_matrix) builds a new one.             *)

\* the attributes of the object t that name an array of the caller
CallerOwned(t) ==
    IF t.cls = "QuadraticReg"
        THEN {f \in {"_ref_model", "_byo_matrix"} : t[f].t = "ndarray"}
    ELSE IF t.cls = "LpNormRegularization"
        THEN {f \in {"_reference_model"} : t[f].t = "ndarray"}
    ELSE {}

\* the object t after the caller's array[k] = v on the array t names by
\* attribute f; self._D is the same object as self._byo_matrix when the
\* matrix was brought
SetItem(t, f, k, v) ==
    LET arr == [t[f] EXCEPT !.data[k] = v]
    IN IF t.cls = "QuadraticReg" /\ f = "_byo_matrix" /\ t._reg_type.t = "None"
       THEN [t EXCEPT ![f] = arr, !._D = arr]
       ELSE [t EXCEPT ![f] = arr]

\* the values the caller writes into its arrays
Written == {<<2, 1>>}

\* the caller writes v at position k of the array it passed when it
\* constructed the object at heap[i]
CallerSetItem(i, f, k, v) ==
    /\ Idle
    /\ f \in CallerOwned(heap[i])
    /\ k \in 1..Len(heap[i][f].data)
    /\ heap[i][f].data[k] # v
    /\ heap' = [heap EXCEPT ![i] = SetItem(heap[i], f, k, v)]
    /\ last' = Call("__setitem__", i, [field |-> f, index |-> k, value |-> v],
                    Ok(PyNone))
    /\ UNCHANGED threads

\* a 1 x 2 weighting matrix (fewer rows than columns)
Wide == NdArray(<<1, 2>>, Vec(<<1, -1>>).data)

\* the constructor arguments that carry arrays: weighting matrices that fit
\* the model, that have the wrong number of columns or of dimensions, and
\* reference models that fit the model or do not
ArrayQuadraticRegArgs ==
    { QArgs(PyInt(1), PyInt(2), PyNone, PyNone, Tall),
      QArgs(PyInt(1), PyInt(3), PyNone, PyNone, Tall),
      QArgs(PyInt(1), PyInt(2), PyNone, PyNone, Vec(<<1, -1>>)),
      QArgs(PyInt(1), PyInt(2), PyNone, PyNone, PyNone),
      QArgs(PyInt(1), PyTuple(<<2, 1>>), PyNone, PyNone, Tall),
      QArgs(PyInt(2), PyInt(2), PyNone, Vec(<<1, -1>>), Wide),
      QArgs(PyInt(1), PyInt(2), PyStr("damping"), Vec(<<1, -1>>), PyNone),
      QArgs(PyInt(1), PyInt(2), PyStr("damping"), Vec(<<1, 0, -1>>), PyNone),
      QArgs(PyInt(1), PyInt(3), PyStr("damping"), Vec(<<1>>), PyNone) }

ArrayLpNormArgs ==
    { LArgs(PyInt(2), Tall, PyTuple(<<2>>), PyNone),
      LArgs(PyInt(2), Tall, PyTuple(<<3>>), PyNone),
      LArgs(PyInt(2), Vec(<<1, -1>>), PyTuple(<<2>>), PyNone),
      LArgs(PyInt(2), PyNone, PyTuple(<<2>>), PyNone),
      LArgs(PyInt(2), Tall, PyTuple(<<2, 1>>), PyNone),
      LArgs(PyInt(3), Tall, PyTuple(<<2>>), Vec(<<1, -1>>)),
      LArgs(PyInt(1), PyStr("damping"), PyTuple(<<2>>), Vec(<<1, -1>>)),
      LArgs(PyInt(1), PyStr("damping"), PyTuple(<<3>>), Vec(<<1, -1>>)),
      LArgs(PyInt(1), PyStr("damping"), PyNone, Vec(<<1, -1>>)) }

\* construction from the caller's arrays, the use of what was constructed,
\* and the caller writing into the arrays it passed
NextArrays ==
    \/ Step(ArrayQuadraticRegArgs, ArrayLpNormArgs, MaxBase, MaxBase + 1)
    \/ \E i \in 1..Len(heap) : \E f \in CallerOwned(heap[i]) :
          \E k \in 1..Len(heap[i][f].data) : \E v \in Written :
             CallerSetItem(i, f, k, v)

SpecArrays == Init /\ [][NextArrays]_vars

----------------------------------------------------------------------------
(* Threads evaluating shared terms. An evaluator runs statement by          *)
(* statement: a term first binds flat_m = self._validate_model(model) and   *)
(* then computes from flat_m and its attributes; a composite calls the same *)
(* method on base, then on other, then combines what they returned. The     *)
(* locals are in the thread's frames; the attributes are read from the      *)
(* heap at the step that uses them.                                         *)

\* the frame of a call of method on heap[i]; got holds what the statements
\* executed so far have bound
Frame(i, method, model) ==
    [self |-> i, method |-> method, model |-> model, pc |-> "enter", got |-> <<>>]

Top(t) == threads[t].stack[Len(threads[t].stack)]

InCall(t) == threads[t].stack # <<>>

\* no thread is in a call
Quiet == \A t \in Threads : threads[t] = IdleThread

\* the top frame of thread t returns r: to the frame below, or to the thread
Pop(t, r) ==
    LET stack == threads[t].stack
        n == Len(stack)
    IN IF n = 1 THEN [threads EXCEPT ![t].stack = <<>>, ![t].out = r]
       ELSE [threads EXCEPT
                ![t].stack = [SubSeq(stack, 1, n - 1) EXCEPT
                                 ![n - 1].got = Append(@, r)]]

\* the top frame of thread t goes on to pc, having bound x
Bind(t, pc, x) ==
    [threads EXCEPT ![t].stack[Len(threads[t].stack)] =
                        [@ EXCEPT !.pc = pc, !.got = Append(@, x)]]

\* flat_m = self._validate_model(model); QuadraticReg.hessian has no such
\* statement and uses the model as it is
ValidateModel(self, method, model) ==
    IF self.cls = "QuadraticReg" THEN
        IF method = "hessian" THEN Ok(model)
        ELSE QuadraticReg_validate_model(self, model)
    ELSE LpNorm_validate_model(self, model)

\* the models the threads pass to the object at h[i]
ThreadModels(h, i) == {Ramp(LeafSize(h, i)), Ones(LeafSize(h, i))}

\* thread t calls heap[i].method(model)
ThreadCall(t, i, method, model) ==
    /\ Idle
    /\ threads[t] = IdleThread
    /\ threads' = [threads EXCEPT
                      ![t] = [stack |-> <<Frame(i, method, model)>>,
                              call |-> [self |-> i, method |-> method,
                                        model |-> model],
                              out |-> Ok(PyNone)]]
    /\ UNCHANGED <<heap, last>>

\* the first statement of a term's evaluator, which also leaves flat_m in
\* self._ref_model
ThreadValidate_KeepsModel(t) ==
    /\ InCall(t)
    /\ ~IsComposite(heap[Top(t).self])
    /\ Top(t).pc = "enter"
    /\ threads' = Bind(t, "validated",
                       ValidateModel(heap[Top(t).self], Top(t).method, Top(t).model))
    /\ heap' = [heap EXCEPT ![Top(t).self] =
                    IF @.cls = "QuadraticReg"
                    THEN [@ EXCEPT !._ref_model = NpRavel(Top(t).model)]
                    ELSE @]
    /\ UNCHANGED last

\* the first statement of a term's evaluator
ThreadValidate(t) ==
    /\ InCall(t)
    /\ ~IsComposite(heap[Top(t).self])
    /\ Top(t).pc = "enter"
    /\ threads' = Bind(t, "validated",
                       ValidateModel(heap[Top(t).self], Top(t).method, Top(t).model))
    /\ UNCHANGED <<heap, last>>

\* the remaining statements of a term's evaluator: the value computed from
\* flat_m and the attributes, or the exception _validate_model raised
ThreadCompute(t) ==
    /\ InCall(t)
    /\ ~IsComposite(heap[Top(t).self])
    /\ Top(t).pc = "validated"
    /\ LET flat_m == Top(t).got[1]
       IN threads' = Pop(t, IF flat_m.exc # "" THEN flat_m
                            ELSE Evaluate(heap, Top(t).self, Top(t).method,
                                          flat_m.val))
    /\ UNCHANGED <<heap, last>>

\* a composite calls the method on base, and on other once base returned
ThreadDescend(t) ==
    /\ InCall(t)
    /\ IsComposite(heap[Top(t).self])
    /\ LET f == Top(t)
           self == heap[f.self]
       IN \/ /\ f.pc = "enter"
             /\ threads' = [threads EXCEPT
                   ![t].stack = Append([@ EXCEPT ![Len(@)].pc = "base"],
                                       Frame(self.base.v, f.method, f.model))]
          \/ /\ f.pc = "base"
             /\ Len(f.got) = 1
             /\ f.got[1].exc = ""
             /\ Truthy(self.other)
             /\ threads' = [threads EXCEPT
                   ![t].stack = Append([@ EXCEPT ![Len(@)].pc = "other"],
                                       Frame(self.other.v, f.method, f.model))]
    /\ UNCHANGED <<heap, last>>

\* a composite returns: the sum of what base and other returned, or the
\* coefficient times what base returned, or the exception base raised
ThreadCombine(t) ==
    /\ InCall(t)
    /\ IsComposite(heap[Top(t).self])
    /\ LET f == Top(t)
           self == heap[f.self]
       IN \/ /\ f.pc = "base"
             /\ Len(f.got) = 1
             /\ f.got[1].exc # "" \/ ~Truthy(self.other)
             /\ threads' = Pop(t, CompositeRegularization_eval(self, f.got[1],
                                                               Ok(PyNone)))
          \/ /\ f.pc = "other"
             /\ Len(f.got) = 2
             /\ threads' = Pop(t, CompositeRegularization_eval(self, f.got[1],
                                                               f.got[2]))
    /\ UNCHANGED <<heap, last>>

\* the thread takes what its call returned
ThreadJoin(t) ==
    /\ ~InCall(t)
    /\ threads[t] # IdleThread
    /\ threads' = [threads EXCEPT ![t] = IdleThread]
    /\ UNCHANGED <<heap, last>>

\* the terms the threads share
ThreadQuadraticRegArgs ==
    { QArgs(PyInt(2), PyInt(2), PyStr("damping"), Vec(<<1, -1>>), PyNone),
      QArgs(PyInt(1), PyInt(3), PyStr("flattening"), PyNone, PyNone) }

ThreadLpNormArgs ==
    { LArgs(PyInt(3), Tall, PyTuple(<<2>>), Vec(<<1, -1>>)),
      LArgs(PyInt(1), PyStr("damping"), PyTuple(<<3>>), PyNone) }

\* the caller constructs and composes terms while no thread is in a call;
\* the threads then evaluate them side by side
NextThreads ==
    \/ \E a \in ThreadQuadraticRegArgs : Quiet /\ NewQuadraticReg(a, MaxBase)
    \/ \E a \in ThreadLpNormArgs : Quiet /\ NewLpNormRegularization(a, MaxBase)
    \/ \E i \in 1..Len(heap) : \E x \in Operands(heap) :
          Quiet /\ CallAdd(i, x, MaxBase + 1)
    \/ \E i \in 1..Len(heap) : \E k \in Coefficients :
          Quiet /\ CallRmul(k, i, MaxBase + 1)
    \/ Return
    \/ \E t \in Threads : \E i \in 1..Len(heap) : \E method \in {"reg", "gradient", "hessian"} :
          \E m \in ThreadModels(heap, i) : ThreadCall(t, i, method, m)
    \/ \E t \in Threads : ThreadValidate(t)
    \/ \E t \in Threads : ThreadCompute(t)
    \/ \E t \in Threads : ThreadDescend(t)
    \/ \E t \in Threads : ThreadCombine(t)
    \/ \E t \in Threads : ThreadJoin(t)

SpecThreads == Init /\ [][NextThreads]_vars

----------------------------------------------------------------------------
(* Orders below 2: LpNormRegularization evaluated where residuals vanish   *)

\* the models of n entries, each 0 or 1
UnitModels(n) == {Vec([k \in 1..n |-> s[k]]) : s \in [1..n -> {0, 1}]}

\* a 2 x 2 weighting matrix that exchanges the two unknowns
Swap == NdArray(<<2, 2>>, Vec(<<0, 1, 1, 0>>).data)

\* orders 1/2, 1, 3/2 and 2, with and without a reference model; residuals
\* are 0, 1 or -1
OrderLpNormArgs ==
    { LArgs(PyFloat(<<1, 2>>), PyStr("damping"), PyTuple(<<2>>), PyNone),
      LArgs(PyFloat(<<1, 2>>), PyStr("damping"), PyNone, Vec(<<1, 0, 1>>)),
      LArgs(PyFloat(<<1, 2>>), Swap, PyTuple(<<2>>), Vec(<<1, 0>>)),
      LArgs(PyInt(1), PyStr("damping"), PyTuple(<<3>>), PyNone),
      LArgs(PyInt(1), Swap, PyTuple(<<2>>), Vec(<<1, 0>>)),
      LArgs(PyFloat(<<3, 2>>), PyStr("damping"), PyTuple(<<2>>), Vec(<<0, 1>>)),
      LArgs(PyInt(2), PyStr("damping"), PyTuple(<<2>>), PyNone) }

NextOrders ==
    \/ \E a \in OrderLpNormArgs : NewLpNormRegularization(a, MaxBase)
    \/ \E i \in 1..Len(heap) : \E m \in UnitModels(LeafSize(heap, i)) : CallReg(i, m)
    \/ \E i \in 1..Len(heap) : \E m \in UnitModels(LeafSize(heap, i)) :
          CallGradient(i, m)
    \/ \E i \in 1..Len(heap) : \E m \in UnitModels(LeafSize(heap, i)) :
          CallHessian(i, m)
    \/ Return

SpecOrders == Init /\ [][NextOrders]_vars

----------------------------------------------------------------------------
(* Vocabulary of the properties                                            *)

EvalOps == {"reg", "gradient", "hessian"}

\* the object the call in last was made on
Self == heap[last.self]

\* a composite made by +
IsSum(t) == IsComposite(t) /\ t.other.t = "ref"

\* a composite made by a scalar *
IsMultiple(t) == IsComposite(t) /\ t.other.t = "None" /\ t.coefficient.t = "int"

\* the caller passed a model of as many entries as the object has unknowns
ValidModel == Len(last.arg.data) = LeafSize(heap, last.self)

\* x + y and k * x on returned values, entry by entry
ValueSum(x, y) ==
    IF x.t = "float" THEN PyFloat(FAdd(x.v, y.v))
    ELSE NdArray(x.shape, [n \in 1..Len(x.data) |-> FAdd(x.data[n], y.data[n])])

ValueTimes(k, x) ==
    IF x.t = "float" THEN PyFloat(FMul(<<k, 1>>, x.v))
    ELSE NdArray(x.shape, [n \in 1..Len(x.data) |-> FMul(<<k, 1>>, x.data[n])])

\* every leaf under the object at h[i] has M unknowns
RECURSIVE LeavesHaveSize(_, _, _)
LeavesHaveSize(h, i, M) ==
    IF IsComposite(h[i]) THEN
        /\ LeavesHaveSize(h, h[i].base.v, M)
        /\ h[i].other.t = "ref" => LeavesHaveSize(h, h[i].other.v, M)
    ELSE model_size(h, i) = Ok(PyInt(M))

----------------------------------------------------------------------------
(* C1: additivity. Whenever reg, gradient or hessian is called on a sum    *)
(* t1 + t2 with a model of the terms' size, each operand returns a value   *)
(* on that model and the sum returns the entrywise sum of the two values.  *)
C1_Additivity ==
    (last.op \in EvalOps /\ IsSum(Self) /\ ValidModel) =>
        LET t1 == Evaluate(heap, Self.base.v, last.op, last.arg)
            t2 == Evaluate(heap, Self.other.v, last.op, last.arg)
        IN /\ t1.exc = ""
           /\ t2.exc = ""
           /\ last.out = Ok(ValueSum(t1.val, t2.val))

\* a Hessian was returned by the sum of a QuadraticReg and an LpNorm term
C1_Witness ==
    /\ last.op = "hessian"
    /\ IsSum(Self)
    /\ ValidModel
    /\ last.out.exc = ""
    /\ heap[Self.base.v].cls = "QuadraticReg"
    /\ heap[Self.other.v].cls = "LpNormRegularization"

(* C2: scalar homogeneity. k * t is constructed for every number k, zero   *)
(* and negative included, and whenever reg, gradient or hessian is called  *)
(* on k * t with a model of t's size, t returns a value on that model and  *)
(* k * t returns k times it.                                               *)
C2_ScalarHomogeneity ==
    /\ (last.op = "__rmul__" /\ IsNumber(last.arg)) =>
            /\ last.out.exc = ""
            /\ IsMultiple(heap[last.out.val.v])
    /\ (last.op \in EvalOps /\ IsMultiple(Self) /\ ValidModel) =>
            LET t == Evaluate(heap, Self.base.v, last.op, last.arg)
            IN /\ t.exc = ""
               /\ last.out = Ok(ValueTimes(Self.coefficient.v, t.val))

\* a gradient was returned by 0 * t or by a negative multiple of t
C2_Witness ==
    /\ last.op = "gradient"
    /\ IsMultiple(Self)
    /\ ValidModel
    /\ Self.coefficient.v <= 0
    /\ last.out.exc = ""

(* C3: t1 + t2 with t1.model_size # t2.model_size raises                   *)
(* DimensionMismatchError and produces no composite.                       *)
C3_MismatchRaisesDimensionMismatch ==
    (/\ last.op = "__add__"
     /\ IsTerm(heap, last.arg)
     /\ model_size(heap, last.self).exc = ""
     /\ model_size(heap, last.arg.v).exc = ""
     /\ model_size(heap, last.self) # model_size(heap, last.arg.v)) =>
        last.out.exc = "DimensionMismatchError"

(* C4: reg(m) and gradient(m) with a model whose flattened size differs    *)
(* from the term's model_size raise DimensionMismatchError.                *)
C4_WrongSizeRaisesDimensionMismatch ==
    (last.op \in {"reg", "gradient"} /\ ~ValidModel) =>
        last.out.exc = "DimensionMismatchError"

(* C5: hessian(m) with a model whose flattened size differs from the       *)
(* term's model_size raises DimensionMismatchError.                        *)
C5_HessianWrongSizeRaisesDimensionMismatch ==
    (last.op = "hessian" /\ ~ValidModel) =>
        last.out.exc = "DimensionMismatchError"

(* C6: closure under composition. The sum of two terms of M unknowns each  *)
(* and every numeric multiple of a term is again a term: + and * return    *)
(* it, and it answers model_size with M.                                   *)
C6_ClosureUnderComposition ==
    /\ (/\ last.op = "__add__"
        /\ IsTerm(heap, last.arg)
        /\ LeavesHaveSize(heap, last.arg.v, LeafSize(heap, last.self))) =>
            last.out.exc = ""
    /\ (last.op = "__rmul__" /\ IsNumber(last.arg)) => last.out.exc = ""
    /\ (last.op = "model_size" /\ IsComposite(Self)) =>
            last.out = Ok(PyInt(LeafSize(heap, last.self)))

\* the entries of a model_shape: of a tuple, or of a bare number
ShapeEntries(shape) == IF shape.t = "tuple" THEN shape.v ELSE <<shape.v>>

(* C7: every term's model_size is the product of the entries of its        *)
(* model_shape, a composite's model_shape is that of its base operand, and *)
(* both are answered alike after any sequence of calls.                    *)
C7_SizeIsProductOfShape ==
    /\ last.op = "model_size" =>
            last.out =
                Ok(PyInt(Product(ShapeEntries(model_shape(heap, last.self).val))))
    /\ (last.op = "model_shape" /\ IsComposite(Self)) =>
            last.out = model_shape(heap, Self.base.v)

(* C8: shape invariant. For every term and every model of its size,        *)
(* gradient returns a vector of model_size entries and hessian a           *)
(* model_size x model_size matrix; tall weighting matrices and composites  *)
(* included.                                                               *)
C8_ShapeInvariant ==
    (last.op \in {"gradient", "hessian"} /\ ValidModel) =>
        LET M == LeafSize(heap, last.self) IN
        /\ last.out.exc = ""
        /\ last.out.val.t = "ndarray"
        /\ last.out.val.shape = IF last.op = "gradient" THEN <<M>> ELSE <<M, M>>
        /\ Len(last.out.val.data) = IF last.op = "gradient" THEN M ELSE M * M

\* the weighting matrix of a leaf has more rows than columns
IsTall(t) ==
    LET W == IF t.cls = "QuadraticReg" THEN t._D ELSE t._weighting_matrix
    IN W.shape[1] > W.shape[2]

\* a gradient was returned by a QuadraticReg whose D is tall
C8_Witness ==
    /\ last.op = "gradient"
    /\ ValidModel
    /\ Self.cls = "QuadraticReg"
    /\ IsTall(Self)
    /\ last.out.exc = ""

\* the reference model of a QuadraticReg is absent or has model_size entries
RefModelFits(t) ==
    t._ref_model.t = "None" \/ Len(t._ref_model.data) = QuadraticReg_model_size(t).val.v

\* entry i of the reference model (0 where there is none) and of a model, as
\* integers
RefEntry(t, i) == IF t._ref_model.t = "None" THEN 0 ELSE t._ref_model.data[i][1]

\* the sum of the squares of a sequence of integers
RECURSIVE SumSq(_)
SumSq(d) == IF d = <<>> THEN 0 ELSE d[1] * d[1] + SumSq(Tail(d))

QuadraticForm(f, D, x) == PyFloat(FMul(f, Dot(MatVec(D, x), MatVec(D, x))))

QuadraticFormGradient(f, D, x) ==
    Scale(FMul(<<2, 1>>, f), MatVec(Transpose(D), MatVec(D, x)))

(* C10, as stated: for a QuadraticReg of any reg_type with resolved matrix *)
(* D, factor f and reference model m0, reg(m) = f (D(m - m0))^T (D(m - m0)) *)
(* and gradient(m) = 2f D^T D (m - m0).                                    *)
C10_QuadraticFormAboutRefModel ==
    (/\ last.op \in {"reg", "gradient"}
     /\ Self.cls = "QuadraticReg"
     /\ RefModelFits(Self)
     /\ ValidModel) =>
        LET f == QuadraticReg_factor(Self)
            x == IF Self._ref_model.t = "None" THEN last.arg
                 ELSE NpSub(last.arg, Self._ref_model).val
        IN last.out = Ok(IF last.op = "reg" THEN QuadraticForm(f, Self._D, x)
                         ELSE QuadraticFormGradient(f, Self._D, x))

(* C10, amended: with reg_type "damping" the form is taken about the       *)
(* reference model, reg(m) = f (m - m0)^T (m - m0) and gradient(m) =        *)
(* 2f (m - m0); with every other reg_type the reference model is ignored,  *)
(* reg(m) = f (D m)^T (D m) and gradient(m) = 2f D^T D m.                  *)
C10_QuadraticForm ==
    (/\ last.op \in {"reg", "gradient"}
     /\ Self.cls = "QuadraticReg"
     /\ RefModelFits(Self)
     /\ ValidModel) =>
        LET f == QuadraticReg_factor(Self)
            x == IF QuadraticReg_is_damping(Self) /\ Self._ref_model.t # "None"
                 THEN NpSub(last.arg, Self._ref_model).val
                 ELSE last.arg
        IN last.out = Ok(IF last.op = "reg" THEN QuadraticForm(f, Self._D, x)
                         ELSE QuadraticFormGradient(f, Self._D, x))

\* reg was returned by a flattening term that holds a reference model, on a
\* model other than the reference model
C10_Witness ==
    /\ last.op = "reg"
    /\ Self.cls = "QuadraticReg"
    /\ ~QuadraticReg_is_damping(Self)
    /\ Self._ref_model.t # "None"
    /\ ValidModel
    /\ last.arg # Self._ref_model
    /\ last.out.exc = ""


(* C11: the Hessian of a QuadraticReg does not depend on the model: on     *)
(* every model of the term's size hessian returns 2 * factor * D^T D, a    *)
(* value fixed by the term alone.                                          *)
C11_HessianIndependentOfModel ==
    (last.op = "hessian" /\ Self.cls = "QuadraticReg" /\ ValidModel) =>
        last.out = Ok(Scale(FMul(<<2, 1>>, QuadraticReg_factor(Self)),
                            MatMul(Transpose(Self._D), Self._D)))

\* hessian was returned by a damping term on a model other than all ones
C11_Witness ==
    /\ last.op = "hessian"
    /\ Self.cls = "QuadraticReg"
    /\ QuadraticReg_is_damping(Self)
    /\ ValidModel
    /\ last.arg = Ramp(Len(last.arg.data))
    /\ last.out.exc = ""


\* q is the QuadraticReg of factor 1 and l the LpNormRegularization of order
\* 2 with the same weighting matrix and the same reference model
Counterparts(q, l) ==
    /\ q.cls = "QuadraticReg"
    /\ l.cls = "LpNormRegularization"
    /\ q._factor = PyInt(1)
    /\ l._order = PyInt(2)
    /\ q._D.shape = l._weighting_matrix.shape
    /\ q._D.data = l._weighting_matrix.data
    /\ q._ref_model = l._reference_model

(* C12, as stated: for the same weighting and reference model,             *)
(* LpNormRegularization(p=2) and QuadraticReg(factor=1) return identical   *)
(* reg, gradient and hessian on every model of their size.                 *)
C12_LpNormEqualsQuadraticAnyKind ==
    \A j \in 1..Len(heap) :
        (/\ last.op \in EvalOps
         /\ Counterparts(heap[j], Self)
         /\ ValidModel) =>
            /\ last.out.exc = ""
            /\ last.out = Evaluate(heap, j, last.op, last.arg)

(* C12, amended: the two return identical reg, gradient and hessian when   *)
(* the weighting is damping or no reference model is given; with a         *)
(* reference model under any other weighting the QuadraticReg ignores it   *)
(* and only the Hessians are equal.                                        *)
C12_LpNormEqualsQuadratic ==
    \A j \in 1..Len(heap) :
        (/\ last.op \in EvalOps
         /\ Counterparts(heap[j], Self)
         /\ ValidModel
         /\ \/ QuadraticReg_is_damping(heap[j])
            \/ heap[j]._ref_model.t = "None"
            \/ last.op = "hessian") =>
            /\ last.out.exc = ""
            /\ last.out = Evaluate(heap, j, last.op, last.arg)

\* a gradient was returned by the order-2 term beside its flattening
\* QuadraticReg counterpart
C12_Witness ==
    /\ last.op = "gradient"
    /\ ValidModel
    /\ last.out.exc = ""
    /\ \E j \in 1..Len(heap) :
          /\ Counterparts(heap[j], Self)
          /\ ~QuadraticReg_is_damping(heap[j])


\* d = D (flatten(m) - flatten(m0)) for the LpNormRegularization t, with m0
\* absent read as zero
WeightedResidual(t, m) ==
    MatVec(t._weighting_matrix,
           NdArray(<<Len(m.data)>>,
                   [i \in 1..Len(m.data) |->
                       IF t._reference_model.t = "None" THEN m.data[i]
                       ELSE FSub(m.data[i], t._reference_model.data[i])])).data

(* C13: an LpNormRegularization of order p, weighting matrix D and         *)
(* reference model m0 returns, on every model m of its size and with       *)
(* d = D (m - m0): reg(m) = sum_i |d_i|^p, gradient(m) =                   *)
(* D^T (p |d|^(p-1) sign(d)) and hessian(m) = D^T diag(p (p-1) |d|^(p-2)) D. *)
C13_LpNormFormulas ==
    (last.op \in EvalOps /\ Self.cls = "LpNormRegularization" /\ ValidModel) =>
        LET p == Self._order.v
            D == Self._weighting_matrix
            d == WeightedResidual(Self, last.arg)
            n == Len(d)
        IN last.out =
            Ok(CASE last.op = "reg" ->
                        PyFloat(FSum([i \in 1..n |-> FPow(FAbs(d[i]), p)]))
                 [] last.op = "gradient" ->
                        MatVec(Transpose(D),
                               NdArray(<<n>>,
                                       [i \in 1..n |->
                                           FMul(FMul(<<p, 1>>,
                                                     FPow(FAbs(d[i]), p - 1)),
                                                FSign(d[i]))]))
                 [] last.op = "hessian" ->
                        MatMul(MatMul(Transpose(D),
                                      NpDiag(NdArray(<<n>>,
                                                [i \in 1..n |->
                                                    FMul(<<p * (p - 1), 1>>,
                                                         FPow(FAbs(d[i]), p - 2))]))),
                               D))

\* reg was returned by a term of order 3 that holds a reference model, on a
\* model with a negative residual
C13_Witness ==
    /\ last.op = "reg"
    /\ Self.cls = "LpNormRegularization"
    /\ Self._order = PyInt(3)
    /\ Self._reference_model.t # "None"
    /\ ValidModel
    /\ \E i \in 1..Len(WeightedResidual(Self, last.arg)) :
          WeightedResidual(Self, last.arg)[i][1] < 0
    /\ last.out.exc = ""


\* the spec's error kinds, as the classes the code raises for them
ConfigurationError == "ValueError"

NotSupportedError == "NotImplementedError"

(* C14: the order p is validated at construction, never at evaluation.     *)
(* LpNormRegularization(p, ...) with p <= 0 or p not a number raises a     *)
(* configuration error and no term comes to exist; every                   *)
(* LpNormRegularization that exists has p > 0, and its reg, gradient and   *)
(* hessian return on every model of its size.                              *)
C14_OrderValidatedAtConstruction ==
    /\ (/\ last.op = "LpNormRegularization"
        /\ (~IsNumber(last.arg.p) \/ last.arg.p.v <= 0)) =>
            last.out = Raise(ConfigurationError)
    /\ \A i \in 1..Len(heap) :
          heap[i].cls = "LpNormRegularization" =>
              IsNumber(heap[i]._order) /\ heap[i]._order.v > 0
    /\ (last.op \in EvalOps /\ Self.cls = "LpNormRegularization" /\ ValidModel) =>
            last.out.exc = ""

\* the constructor refused an order that is not a number
C14_Witness ==
    /\ last.op = "LpNormRegularization"
    /\ ~IsNumber(last.arg.p)
    /\ last.out = Raise(ConfigurationError)
    /\ heap = <<>>


(* C15: QuadraticReg with a negative factor raises a configuration error   *)
(* and no term comes to exist, while factor 0 is accepted wherever factor  *)
(* 1 is; every QuadraticReg that exists has factor >= 0, and its reg is    *)
(* >= 0 on every model of its size.                                        *)
C15_FactorValidatedAtConstruction ==
    /\ (last.op = "QuadraticReg" /\ IsNumber(last.arg.factor)) =>
          /\ last.arg.factor.v < 0 => last.out = Raise(ConfigurationError)
          /\ (/\ last.arg.factor.v = 0
              /\ QuadraticReg_init([last.arg EXCEPT !.factor = PyInt(1)]).exc = "") =>
                    last.out.exc = ""
    /\ \A i \in 1..Len(heap) :
          heap[i].cls = "QuadraticReg" =>
              IsNumber(heap[i]._factor) /\ heap[i]._factor.v >= 0
    /\ (last.op = "reg" /\ Self.cls = "QuadraticReg" /\ ValidModel) =>
          /\ last.out.exc = ""
          /\ IsFinite(last.out.val.v)
          /\ last.out.val.v[1] >= 0

\* the constructor refused a negative factor
C15_Witness ==
    /\ last.op = "QuadraticReg"
    /\ IsNumber(last.arg.factor)
    /\ last.arg.factor.v < 0
    /\ last.out = Raise(ConfigurationError)
    /\ heap = <<>>


\* a constructor call, the weighting kind it asks for, and the dimensions of
\* the model shape it names
IsConstructorCall == last.op \in {"QuadraticReg", "LpNormRegularization"}

ArgKind ==
    IF last.op = "QuadraticReg" THEN last.arg.reg_type ELSE last.arg.weighting_matrix

ArgDims ==
    LET shape == IF last.op = "QuadraticReg" THEN last.arg.model_size
                 ELSE last.arg.model_shape
    IN IF shape.t = "tuple" THEN shape.v ELSE <<shape.v>>

\* the call asks for a derivative operator, its other arguments being valid
AsksDerivative ==
    /\ IsConstructorCall
    /\ ArgKind.t = "str"
    /\ ArgKind.v \in {"flattening", "roughening", "smoothing"}
    /\ IF last.op = "QuadraticReg"
       THEN QuadraticReg_validate_factor(last.arg.factor).exc = ""
       ELSE LpNorm_validate_p(last.arg.p).exc = ""

\* the weighting matrix of the object the constructor call returned
BuiltMatrix ==
    LET t == heap[last.out.val.v]
    IN IF t.cls = "QuadraticReg" THEN t._D ELSE t._weighting_matrix

(* C16: derivative-order boundary in 1-D. In both classes an order-k       *)
(* operator (k = 1 flattening/roughening, k = 2 smoothing) on a 1-D model  *)
(* of size M raises a configuration error exactly when M < k + 2 and       *)
(* otherwise constructs a term with an M x M matrix.                       *)
C16_DerivativeBoundary1D ==
    (AsksDerivative /\ Len(ArgDims) = 1) =>
        LET M == ArgDims[1]
            k == RegOrder(ArgKind.v)
        IN IF M < k + 2 THEN last.out = Raise(ConfigurationError)
           ELSE /\ last.out.exc = ""
                /\ BuiltMatrix.shape = <<M, M>>


(* C17: derivative operators in 2-D. In both classes an order-k operator   *)
(* on a model of shape (nx, ny) raises a configuration error if and only   *)
(* if nx < k + 2 or ny < k + 2, and otherwise constructs a term whose      *)
(* matrix is the x-direction block stacked on the y-direction block,       *)
(* 2 nx ny rows by nx ny columns.                                          *)
C17_DerivativeBoundary2D ==
    (AsksDerivative /\ Len(ArgDims) = 2) =>
        LET nx == ArgDims[1]
            ny == ArgDims[2]
            k == RegOrder(ArgKind.v)
        IN IF nx < k + 2 \/ ny < k + 2 THEN last.out = Raise(ConfigurationError)
           ELSE /\ last.out.exc = ""
                /\ BuiltMatrix.shape = <<2 * nx * ny, nx * ny>>
                /\ BuiltMatrix.data = FinDiffMatrix2D(0, k, nx, ny).data
                                        \o FinDiffMatrix2D(1, k, nx, ny).data


(* C18: a derivative-based kind (flattening, roughening, smoothing) for a  *)
(* model shape of more than 2 dimensions raises the not-supported error at *)
(* construction, in both classes, and no term comes to exist.              *)
C18_MoreThan2DNotSupported ==
    (AsksDerivative /\ Len(ArgDims) > 2) => last.out = Raise(NotSupportedError)

\* QuadraticReg refused a 3-D shape
C18_Witness ==
    /\ last.op = "QuadraticReg"
    /\ AsksDerivative
    /\ Len(ArgDims) = 3
    /\ last.out = Raise(NotSupportedError)
    /\ heap = <<>>


\* the order-k derivative operator of a 1-D or 2-D grid, as flat data
DerivativeOperatorData(k, dims) ==
    IF Len(dims) = 1 THEN FinDiffMatrix1D(k, dims[1]).data
    ELSE FinDiffMatrix2D(0, k, dims[1], dims[2]).data
            \o FinDiffMatrix2D(1, k, dims[1], dims[2]).data

\* the call names a kind of REG_TYPES or leaves the kind (and the matrix)
\* unset, on a 1-D or 2-D shape large enough for the kind, its other
\* arguments being valid
AsksKnownKind ==
    /\ IsConstructorCall
    /\ IF last.op = "QuadraticReg"
       THEN /\ QuadraticReg_validate_factor(last.arg.factor).exc = ""
            /\ last.arg.byo_matrix.t = "None"
       ELSE /\ LpNorm_validate_p(last.arg.p).exc = ""
            /\ last.arg.model_shape.t # "None"
    /\ \/ ArgKind.t = "None"
       \/ ArgKind.t = "str" /\ ArgKind.v \in REG_TYPES
    /\ Len(ArgDims) \in {1, 2}
    /\ ArgKind.t = "str" =>
          \A a \in 1..Len(ArgDims) : ArgDims[a] >= RegOrder(ArgKind.v) + 2

(* C19: weighting-matrix resolution. For every supported 1-D or 2-D model  *)
(* shape, kind "damping" or an unset kind resolves to the identity of      *)
(* model_size x model_size, "flattening" and "roughening" to the same      *)
(* order-1 operator, "smoothing" to the order-2 operator.                  *)
C19_WeightingMatrixResolution ==
    AsksKnownKind =>
        LET M == Product(ArgDims)
            k == IF ArgKind.t = "None" THEN 0 ELSE RegOrder(ArgKind.v)
        IN /\ last.out.exc = ""
           /\ BuiltMatrix.data =
                 IF k = 0 THEN NpIdentity(M).data
                 ELSE DerivativeOperatorData(k, ArgDims)
           /\ BuiltMatrix.shape[2] = M


(* C20: a string kind outside {"damping", "flattening", "roughening",      *)
(* "smoothing"} raises InvalidOptionError at construction, in both         *)
(* classes, and no term comes to exist.                                    *)
C20_UnknownKindRaisesInvalidOption ==
    (/\ IsConstructorCall
     /\ ArgKind.t = "str"
     /\ ArgKind.v \notin REG_TYPES
     /\ IF last.op = "QuadraticReg"
        THEN QuadraticReg_validate_factor(last.arg.factor).exc = ""
        ELSE LpNorm_validate_p(last.arg.p).exc = "") =>
        last.out = Raise("InvalidOptionError")



\* the dimensions of the model a constructor call is for; LpNormRegularization
\* takes them from the reference model when it is given no shape
CallDims ==
    IF last.op = "QuadraticReg"
    THEN (IF last.arg.model_size.t = "tuple" THEN last.arg.model_size.v
          ELSE <<last.arg.model_size.v>>)
    ELSE IF last.arg.model_shape.t = "None" THEN last.arg.reference_model.shape
    ELSE last.arg.model_shape.v

\* the matrix the caller supplied, or None
SuppliedMatrix ==
    IF last.op = "QuadraticReg" THEN last.arg.byo_matrix
    ELSE last.arg.weighting_matrix

\* a constructor call that names no kind, its factor or order and its shape
\* being valid
AsksUnsetKind ==
    /\ IsConstructorCall
    /\ IF last.op = "QuadraticReg"
       THEN /\ last.arg.reg_type.t = "None"
            /\ QuadraticReg_validate_factor(last.arg.factor).exc = ""
       ELSE /\ last.arg.weighting_matrix.t # "str"
            /\ LpNorm_validate_p(last.arg.p).exc = ""
            /\ LpNorm_validate_shape(last.arg.model_shape,
                                     last.arg.reference_model).exc = ""

\* what construction does with the supplied matrix W for a model of M
\* unknowns: W is taken if it is 2-dimensional with M columns and refused
\* otherwise, and no W gives the identity
ResolvesSupplied(W, M) ==
    IF W.t = "None" THEN
        /\ last.out.exc = ""
        /\ BuiltMatrix.shape = <<M, M>>
        /\ BuiltMatrix.data = NpIdentity(M).data
    ELSE IF Len(W.shape) = 2 /\ W.shape[2] = M THEN
        /\ last.out.exc = ""
        /\ BuiltMatrix.shape = W.shape
        /\ BuiltMatrix.data = W.data
    ELSE last.out = Raise(ConfigurationError)

PassesMisfitRefModel ==
    /\ IsConstructorCall
    /\ IF last.op = "QuadraticReg"
       THEN /\ QuadraticReg_validate_factor(last.arg.factor).exc = ""
            /\ last.arg.reg_type = PyStr("damping")
            /\ IsNumber(last.arg.model_size)
            /\ last.arg.ref_model.t = "ndarray"
            /\ last.arg.ref_model.shape # <<last.arg.model_size.v>>
       ELSE /\ LpNorm_validate_p(last.arg.p).exc = ""
            /\ last.arg.model_shape.t = "tuple"
            /\ last.arg.reference_model.t = "ndarray"
            /\ last.arg.reference_model.shape # last.arg.model_shape.v

\* the reference model of a term that is no composite, or None
RefModelOf(t) ==
    IF t.cls = "QuadraticReg" THEN t._ref_model ELSE t._reference_model

(* C22: a reference model is validated at construction. A damping           *)
(* QuadraticReg, or an LpNormRegularization given both model_shape and      *)
(* reference_model, with a reference model whose shape is not the model's   *)
(* raises DimensionMismatchError at construction; so no term exists whose   *)
(* reference model has another size than model_size, and no evaluator       *)
(* fails later because of the reference model.                              *)
C22_RefModelValidatedAtConstruction ==
    /\ PassesMisfitRefModel => last.out = Raise("DimensionMismatchError")
    /\ \A i \in 1..Len(heap) :
          (~IsComposite(heap[i]) /\ RefModelOf(heap[i]).t = "ndarray") =>
              Len(RefModelOf(heap[i]).data) = LeafSize(heap, i)
    /\ (/\ last.op \in EvalOps
        /\ ~IsComposite(Self)
        /\ RefModelOf(Self).t = "ndarray"
        /\ ValidModel) => last.out.exc = ""



(* C23: non-numeric and non-term operands are rejected. k * t with k not a  *)
(* number raises TypeError, and t + x with x not a regularization term      *)
(* raises TypeError, whatever t is (the test comes before any comparison    *)
(* of sizes); neither call produces a composite.                            *)
C23_BadOperandRaisesTypeError ==
    [][/\ (last'.op = "__rmul__" /\ ~IsNumber(last'.arg)) =>
              (last'.out = Raise("TypeError") /\ heap' = heap)
       /\ (last'.op = "__add__" /\ ~IsTerm(heap, last'.arg)) =>
              (last'.out = Raise("TypeError") /\ heap' = heap)]_vars

\* a number was added to a term
C23_Witness ==
    /\ last.op = "__add__"
    /\ last.arg = PyInt(1)
    /\ last.out = Raise("TypeError")
    /\ Len(heap) = 1



\* the operations on a term that exists: evaluation, introspection, + and *
TermOps == EvalOps \cup {"model_size", "model_shape", "__add__", "__rmul__"}

(* C24: no operation mutates a term. Across every reg, gradient, hessian,   *)
(* + and scalar * invocation, those that raise included, every object that  *)
(* existed before the call is what it was (model shape, weighting matrix,   *)
(* reference model, order, factor, operands), and re-evaluating on the      *)
(* same model straight after an evaluation returns what the evaluation      *)
(* returned.                                                                *)
C24_NoOperationMutatesATerm ==
    [][last'.op \in TermOps =>
          /\ \A i \in 1..Len(heap) : heap'[i] = heap[i]
          /\ last'.op \in EvalOps =>
                last'.out = Evaluate(heap', last'.self, last'.op, last'.arg)]_vars

\* an evaluation of a composite raised, both objects being in place
C24_Witness ==
    /\ last.op = "gradient"
    /\ last.out.exc # ""
    /\ Len(heap) = 2
    /\ IsComposite(Self)



\* thread t has returned from its call and not yet taken the result
Returned(t) == threads[t].stack = <<>> /\ threads[t].call # PyNone

(* C25: concurrent evaluation is safe. When threads interleave calls of     *)
(* reg, gradient and hessian on shared terms and composites, each with its  *)
(* own model, no step of an evaluator writes to an object, and every call   *)
(* returns exactly what the same call returns when it runs alone.           *)
C25_ConcurrentEvaluationIsSafe ==
    [][/\ threads' # threads => heap' = heap
       /\ \A t \in Threads :
             (threads'[t].stack = <<>> /\ threads'[t].call # PyNone) =>
                 threads'[t].out = Evaluate(heap', threads'[t].call.self,
                                            threads'[t].call.method,
                                            threads'[t].call.model)]_vars

\* a thread has returned a value from a composite while another thread is
\* inside a call on the same composite with another model
C25_Witness ==
    /\ Returned(1)
    /\ threads[1].out.exc = ""
    /\ InCall(2)
    /\ Len(threads[2].stack) = 2
    /\ threads[2].call.self = threads[1].call.self
    /\ threads[2].call.model # threads[1].call.model
    /\ IsComposite(heap[threads[1].call.self])



\* term.matrix of a term that is no composite
MatrixOf(t) == IF t.cls = "QuadraticReg" THEN t._D ELSE t._weighting_matrix

(* C26: every term that construction returns has a fully resolved          *)
(* weighting matrix: term.matrix is a 2-dimensional matrix, never a kind    *)
(* string or None, whose column count is model_size, for every kind and for *)
(* bring-your-own matrices; a constructor that cannot establish this raises *)
(* and leaves no term behind.                                               *)
C26_MatrixResolvedOrNoTerm ==
    [][/\ \A i \in 1..Len(heap') :
             ~IsComposite(heap'[i]) =>
                 LET D == MatrixOf(heap'[i])
                 IN /\ IsMatrix(D)
                    /\ Len(D.shape) = 2
                    /\ D.shape[2] = LeafSize(heap', i)
                    /\ Len(D.data) = D.shape[1] * D.shape[2]
       /\ (last'.op \in {"QuadraticReg", "LpNormRegularization"}
              /\ last'.out.exc # "") => heap' = heap]_vars

\* LpNormRegularization returned a term built on a matrix of 3 rows
C26_Witness ==
    /\ last.op = "LpNormRegularization"
    /\ last.arg.weighting_matrix.t = "ndarray"
    /\ last.out.exc = ""
    /\ BuiltMatrix.t = "csr_matrix"
    /\ BuiltMatrix.shape = <<3, 2>>



\* the order of the LpNormRegularization t is below the integer n
OrderBelow(t, n) == Num(t._order)[1] < n * Num(t._order)[2]

\* the positions at which a sequence of floats holds 0, and those at which
\* it holds an infinity or not-a-number
ZeroAt(d) == {i \in 1..Len(d) : d[i] = Zero}

NonFiniteAt(d) == {i \in 1..Len(d) : ~IsFinite(d[i])}

\* the diagonal of a square matrix
Diagonal(A) == [i \in 1..Rows(A) |-> At(A, i, i)]

\* the weighting matrix of t is the identity
IdentityWeighted(t) ==
    t._weighting_matrix.data = NpIdentity(Rows(t._weighting_matrix)).data

(* C27: the zero-residual singularity is not guarded. For an               *)
(* LpNormRegularization, gradient(m) with p < 1 and hessian(m) with p < 2,  *)
(* at a model where some component of d = D (m - m0) is exactly 0, raise    *)
(* nothing and return a result that holds an infinity or not-a-number; *)
(* under identity weighting the special values stand exactly at the         *)
(* singular entries.                                                        *)
C27_ZeroResidualNotGuarded ==
    (/\ last.op \in {"gradient", "hessian"}
     /\ Self.cls = "LpNormRegularization"
     /\ ValidModel
     /\ OrderBelow(Self, IF last.op = "gradient" THEN 1 ELSE 2)
     /\ ZeroAt(WeightedResidual(Self, last.arg)) # {}) =>
        /\ last.out.exc = ""
        /\ NonFiniteAt(last.out.val.data) # {}
        /\ IdentityWeighted(Self) =>
              NonFiniteAt(IF last.op = "gradient" THEN last.out.val.data
                          ELSE Diagonal(last.out.val))
                  = ZeroAt(WeightedResidual(Self, last.arg))

\* the gradient of an order-1/2 term was asked at its reference model
C27_Witness ==
    /\ last.op = "gradient"
    /\ Self.cls = "LpNormRegularization"
    /\ OrderBelow(Self, 1)
    /\ Self._reference_model.t = "ndarray"
    /\ last.arg.data = Self._reference_model.data
    /\ last.out.exc = ""
    /\ NonFiniteAt(last.out.val.data) = 1..Len(last.arg.data)



\* a returned value that is zero: the float 0, or an array of zeros
IsZeroValue(v) ==
    IF v.t = "float" THEN v.v = Zero
    ELSE \A k \in 1..Len(v.data) : v.data[k] = Zero

\* a returned value without infinities and not-a-numbers
IsFiniteValue(v) ==
    IF v.t = "float" THEN IsFinite(v.v)
    ELSE \A k \in 1..Len(v.data) : IsFinite(v.data[k])

\* what the call in last returns when made on the base of the composite
BaseOut == Evaluate(heap, Self.base.v, last.op, last.arg)

\* every composite has exactly one of other and coefficient set, its
\* evaluators return a value on every valid model, and a negative multiple
\* of a term returns k * base.reg(m) <= 0
CompositeWellFormed ==
    /\ \A i \in 1..Len(heap) :
          IsComposite(heap[i]) =>
              (heap[i].other.t = "ref") # (heap[i].coefficient.t # "None")
    /\ (last.op \in EvalOps /\ IsComposite(Self) /\ ValidModel) =>
          /\ last.out.exc = ""
          /\ last.out.val # PyNone
    /\ (/\ last.op = "reg"
        /\ IsMultiple(Self)
        /\ Self.coefficient.v < 0
        /\ ~IsComposite(heap[Self.base.v])
        /\ ValidModel) =>
          /\ last.out.val = ValueTimes(Self.coefficient.v, BaseOut.val)
          /\ IsFinite(last.out.val.v)
          /\ last.out.val.v[1] <= 0

\* a call of an evaluator on 0 * t with a valid model
ZeroMultipleEvaluated ==
    /\ last.op \in EvalOps
    /\ IsMultiple(Self)
    /\ Self.coefficient.v = 0
    /\ ValidModel

(* C28, as stated: every composite reachable through + and scalar * has    *)
(* exactly one of (other, coefficient) set, and each of its evaluators      *)
(* returns a value (never None) for every valid model, including a          *)
(* composite built with coefficient 0, whose reg, gradient and hessian are  *)
(* zero, and one built with a negative coefficient, whose reg(m) is         *)
(* k * base.reg(m) <= 0.                                                    *)
C28_CompositeReturnsValueZeroForZero ==
    /\ CompositeWellFormed
    /\ ZeroMultipleEvaluated => IsZeroValue(last.out.val)

(* C28, amended: the same, the evaluators of 0 * t being zero wherever t's  *)
(* own value is finite; where t returns an infinity or not-a-number (the    *)
(* zero-residual singularity of an LpNormRegularization of order below 2),  *)
(* 0 * t returns not-a-number there.                                        *)
C28_CompositeReturnsValue ==
    /\ CompositeWellFormed
    /\ ZeroMultipleEvaluated =>
          IF IsFiniteValue(BaseOut.val) THEN IsZeroValue(last.out.val)
          ELSE /\ last.out.val.t = "ndarray"
               /\ \A k \in 1..Len(last.out.val.data) :
                     IF IsFinite(BaseOut.val.data[k])
                     THEN last.out.val.data[k] = Zero
                     ELSE last.out.val.data[k] = NaN

\* the hessian of 0 * t returned zeros
C28_Witness ==
    /\ ZeroMultipleEvaluated
    /\ last.op = "hessian"
    /\ last.out.exc = ""
    /\ IsZeroValue(last.out.val)



\* the call in last is t1 + t2 on two terms whose leaves all have as many
\* unknowns as t1's leftmost leaf
AddsEqualSized ==
    /\ last.op = "__add__"
    /\ IsTerm(heap, last.arg)
    /\ LeavesHaveSize(heap, last.self, LeafSize(heap, last.self))
    /\ LeavesHaveSize(heap, last.arg.v, LeafSize(heap, last.self))

\* what method returns on model when called on the composite c, were c the
\* next object constructed
EvaluateNew(c, method, model) ==
    Evaluate(Append(heap, c), Len(heap) + 1, method, model)

(* C29: addition is commutative in value. For terms t1, t2 with equal       *)
(* model_size, t1 + t2 and t2 + t1 are both constructible, and on every     *)
(* valid model their reg, gradient and hessian are equal.                   *)
C29_AdditionCommutes ==
    AddsEqualSized =>
        LET t1 == last.self
            t2 == last.arg.v
            sum12 == __add__(heap, t1, Ref(t2))
            sum21 == __add__(heap, t2, Ref(t1))
        IN /\ sum12.exc = ""
           /\ sum21.exc = ""
           /\ \A method \in EvalOps : \A m \in ModelsOfSize(LeafSize(heap, t1)) :
                 /\ EvaluateNew(sum12.val, method, m).exc = ""
                 /\ EvaluateNew(sum12.val, method, m)
                       = EvaluateNew(sum21.val, method, m)


\* ---------------------------------------------------------------------------
\* C30

(* C30: a term does not alias the arrays of its caller. When the caller     *)
(* changes the contents of the array it passed as byo_matrix or as the      *)
(* reference model, term.matrix stays what it was and reg, gradient and     *)
(* hessian of the term answer what they answered before, for QuadraticReg   *)
(* and for LpNormRegularization.                                            *)
C30_NoAliasOfCallerArrays ==
    [][last'.op = "__setitem__" =>
          LET i == last'.self
          IN /\ MatrixOf(heap'[i]) = MatrixOf(heap[i])
             /\ \A method \in EvalOps : \A m \in ModelsFor(heap, i) :
                   Evaluate(heap', i, method, m) = Evaluate(heap, i, method, m)]_vars

====
